---- MODULE Spec2Model ----
(***************************************************************************)
(* Model of the storefront's pricing engine (src/src/data/pricing.ts) and  *)
(* of its local-storage cart (src/unnamed/part_000, imported by the        *)
(* components as "../data/cart").                                          *)
(*                                                                         *)
(* Numbers.  Prices and quantities are integers (CLP has no minor unit),   *)
(* so +, - and * on them are exact in the program's doubles and are        *)
(* modelled by integer arithmetic.  The single division of the engine,     *)
(* in getDiscountPercent, is kept as an unreduced fraction                  *)
(* [num, den] with den > 0; its sign and its value are read off by         *)
(* cross-multiplication.                                                   *)
(***************************************************************************)
EXTENDS Integers, Sequences, FiniteSets, TLC

VARIABLES
    product,        \* the Product object handed to the pricing engine
    call,           \* the engine function called last, its qty and its return value
    localStorage,   \* the browser's storage entry under KEY
    addLog,         \* history: the items handed to addToCart so far, in order
    cartCall,       \* the cart function called last and what came of the call
    tabs,           \* per browser tab: where its cart call stands, what it read
    lastWrite,      \* history: the last write of a tab to the storage entry
    fields,         \* the quantity fields of the pages and the stock of their product
    form,           \* the company form of the quote modal
    quote,          \* ProductDetail's state for its quote modal
    exported,       \* the document the last step downloaded, if it downloaded one
    catalog,        \* the catalog page: its filter settings and the list it shows
    views,          \* per tab: the header's badge and the cart panel
    page            \* the detail page: its product's status, its add-to-cart flag

pricingVars == <<product, call>>
cartVars == <<localStorage, addLog, cartCall>>
tabVars == <<tabs, lastWrite>>
fieldVars == <<fields>>
formVars == <<form>>
quoteVars == <<quote>>
catalogVars == <<catalog>>
viewVars == <<views>>
pageVars == <<page>>
vars ==
    <<product, call, localStorage, addLog, cartCall, tabs, lastWrite, fields, form,
      quote, exported, catalog, views, page>>

\* what the steps of one part of the program leave alone
\* (a step of the pages says itself what it downloads)
NotPricing == <<cartVars, tabVars, fieldVars, formVars, quoteVars, exported, catalogVars, viewVars, pageVars>>
NotCart == <<pricingVars, tabVars, fieldVars, formVars, quoteVars, exported, catalogVars, viewVars, pageVars>>
NotTabs == <<pricingVars, addLog, cartCall, fieldVars, formVars, quoteVars, exported, catalogVars, viewVars, pageVars>>
NotFields == <<pricingVars, cartVars, tabVars, formVars, quoteVars, catalogVars, viewVars, pageVars>>
NotForm == <<pricingVars, cartVars, tabVars, fieldVars, quoteVars, catalogVars, viewVars, pageVars>>
NotQuote == <<pricingVars, cartVars, tabVars, formVars, catalogVars, viewVars, pageVars>>
NotCatalog ==
    <<pricingVars, cartVars, tabVars, fieldVars, formVars, quoteVars, exported, viewVars, pageVars>>
NotViews ==
    <<pricingVars, addLog, cartCall, tabs, fieldVars, formVars, quoteVars, exported,
      catalogVars, pageVars>>
NotPage ==
    <<product, call, addLog, tabVars, formVars, quoteVars, catalogVars, viewVars>>

----------------------------------------------------------------------------
(* Bounds of the model *)

MaxBreaks == 2      \* longest priceBreaks list drawn
MaxMinQty == 1      \* largest minQty of a generic break (smallest is 0)
MaxPrice == 3       \* largest generic price (basePrice from 0, break price from 1)
MaxQty == 2         \* largest generic quantity handed to the engine (smallest is -1)

----------------------------------------------------------------------------
(* Helpers over sequences *)

Range(s) == {s[i] : i \in 1..Len(s)}

SeqsUpTo(S, n) == UNION {[1..k -> S] : k \in 0..n}

Min2(a, b) == IF a < b THEN a ELSE b

Max2(a, b) == IF a > b THEN a ELSE b

----------------------------------------------------------------------------
(* Values of the pricing engine *)

\* `null`, and a non-null reference to a break: a sequence of length 0 or 1
null == <<>>

Some(b) == <<b>>

\* the fraction returned by `return 0`
Zero == [num |-> 0, den |-> 1]

PriceBreaks == [minQty : 0..MaxMinQty, price : 1..MaxPrice]

\* product.priceBreaks is optional: defined = FALSE is `undefined`
Products ==
    [basePrice : 0..MaxPrice,
     priceBreaks : [defined : {TRUE}, value : SeqsUpTo(PriceBreaks, MaxBreaks)]
                   \cup {[defined |-> FALSE, value |-> <<>>]}]

\* the product of the worked example: basePrice 1000, breaks 10 -> 900, 50 -> 800
ExampleProduct ==
    [basePrice |-> 1000,
     priceBreaks |-> [defined |-> TRUE,
                      value |-> <<[minQty |-> 10, price |-> 900],
                                  [minQty |-> 50, price |-> 800]>>]]

ExampleQtys == {5, 10, 60}

Qtys == -1..MaxQty

\* the quantities the engine is called with for product p
QtysFor(p) == IF p = ExampleProduct THEN Qtys \cup ExampleQtys ELSE Qtys

----------------------------------------------------------------------------
(* src/src/data/pricing.ts *)

\* Array.prototype.slice(): a fresh array with the same elements
slice(arr) == arr

\* insert b into the sorted array, after every element that does not compare
\* greater (a.minQty - b.minQty <= 0): Array.prototype.sort is stable
RECURSIVE insertByMinQty(_, _)
insertByMinQty(sorted, b) ==
    IF sorted = <<>> THEN <<b>>
    ELSE IF Head(sorted).minQty - b.minQty > 0 THEN <<b>> \o sorted
    ELSE <<Head(sorted)>> \o insertByMinQty(Tail(sorted), b)

\* arr.sort((a, b) => a.minQty - b.minQty)
RECURSIVE sortByMinQty(_)
sortByMinQty(arr) ==
    IF arr = <<>> THEN <<>>
    ELSE insertByMinQty(sortByMinQty(SubSeq(arr, 1, Len(arr) - 1)), arr[Len(arr)])

\* product.priceBreaks ?? []
breaksOrEmpty(p) == IF p.priceBreaks.defined THEN p.priceBreaks.value ELSE <<>>

\* sortBreaks without slice(): sort() reorders product.priceBreaks itself
sortBreaksCall_inPlace(p) ==
    LET sorted == sortByMinQty(breaksOrEmpty(p))
    IN [ret |-> sorted,
        product |-> IF p.priceBreaks.defined
                    THEN [p EXCEPT !.priceBreaks.value = sorted]
                    ELSE p]

\* one call of sortBreaks: the array it returns and the product it leaves behind.
\* sort() works in place on the array slice() made, so product.priceBreaks
\* still is the array it was.
sortBreaksCall(p) ==
    LET copy == slice(breaksOrEmpty(p))
    IN [ret |-> sortByMinQty(copy), product |-> p]

sortBreaks(p) == sortBreaksCall(p).ret

\* the callback without its tie rule: the first break of the lowest price wins
bestOf_noTieRule(best, curr) ==
    IF best = null THEN Some(curr)
    ELSE IF curr.price < best[1].price THEN Some(curr)
    ELSE best

\* the callback taking the highest tier reached instead of the lowest price
bestOf_lastTier(best, curr) == Some(curr)

\* the callback of eligible.reduce(..., null)
bestOf(best, curr) ==
    IF best = null THEN Some(curr)
    ELSE IF curr.price < best[1].price THEN Some(curr)
    ELSE IF curr.price = best[1].price /\ curr.minQty > best[1].minQty THEN Some(curr)
    ELSE best

\* eligible.reduce(bestOf, best), left to right
RECURSIVE reduceBest(_, _)
reduceBest(eligible, best) ==
    IF eligible = <<>> THEN best
    ELSE reduceBest(Tail(eligible), bestOf(best, Head(eligible)))

\* the best break chosen among all breaks, reached by the quantity or not
getBestBreakForQty_noFilter(p, qty) ==
    IF Len(sortBreaks(p)) = 0 THEN null ELSE reduceBest(sortBreaks(p), null)

getBestBreakForQty(p, qty) ==
    LET sorted == sortBreaks(p)
        isEligible(b) == qty >= b.minQty
        eligible == SelectSeq(sorted, isEligible)
    IN IF Len(sorted) = 0 THEN null
       ELSE IF Len(eligible) = 0 THEN null
       ELSE reduceBest(eligible, null)

\* the unit price without the Math.min guard
getUnitPriceForQty_noMin(p, qty) ==
    LET best == getBestBreakForQty(p, qty)
    IN IF best # null THEN best[1].price ELSE p.basePrice

getUnitPriceForQty(p, qty) ==
    LET best == getBestBreakForQty(p, qty)
    IN IF best # null THEN Min2(best[1].price, p.basePrice) ELSE p.basePrice

\* the discount as a fraction of the discounted amount instead of the base
getDiscountPercent_overDiscounted(p, qty) ==
    LET base == p.basePrice * qty
        discounted == getUnitPriceForQty(p, qty) * qty
    IN IF base <= 0 THEN Zero
       ELSE [num |-> (base - discounted) * 100, den |-> discounted]

\* the discount without the base <= 0 guard
getDiscountPercent_noGuard(p, qty) ==
    LET base == p.basePrice * qty
        discounted == getUnitPriceForQty(p, qty) * qty
    IN [num |-> (base - discounted) * 100, den |-> base]

getDiscountPercent(p, qty) ==
    LET base == p.basePrice * qty
        unit == getUnitPriceForQty(p, qty)
        discounted == unit * qty
    IN IF base <= 0 THEN Zero
       ELSE [num |-> (base - discounted) * 100, den |-> base]

\* the subtotal taken at the base price
computePricing_baseSubtotal(p, qty) ==
    [unitPrice |-> getUnitPriceForQty(p, qty),
     netSubtotal |-> p.basePrice * qty,
     discountPercent |-> getDiscountPercent(p, qty)]

\* an engine that clamps the quantity to >= 1 itself
computePricing_clamped(p, qty) ==
    [unitPrice |-> getUnitPriceForQty(p, Max2(1, qty)),
     netSubtotal |-> getUnitPriceForQty(p, Max2(1, qty)) * Max2(1, qty),
     discountPercent |-> getDiscountPercent(p, Max2(1, qty))]

computePricing(p, qty) ==
    LET unitPrice == getUnitPriceForQty(p, qty)
        netSubtotal == unitPrice * qty
        discountPercent == getDiscountPercent(p, qty)
    IN [unitPrice |-> unitPrice, netSubtotal |-> netSubtotal,
        discountPercent |-> discountPercent]

----------------------------------------------------------------------------
(* The pricing engine called on a product, one call per step *)

NoCall == [op |-> "none", qty |-> 0, ret |-> 0]

\* no cart function called yet
NoCartCall == [op |-> "none", threw |-> FALSE, ret |-> 0, notified |-> <<>>]

\* the cart untouched: nothing stored under KEY, nothing called
CartIdle ==
    /\ localStorage = [present |-> FALSE]
    /\ addLog = <<>>
    /\ cartCall = NoCartCall

\* the pricing engine not in use
PricingIdle ==
    /\ product = ExampleProduct
    /\ call = NoCall

\* the browser tabs
Tabs == {1, 2}

\* a tab with no cart call under way
TabIdle == [pc |-> "idle"]

\* no tab has written yet
NoWrite == [tab |-> 0]

\* no tab in the middle of a cart call
TabsIdle ==
    /\ tabs = [t \in Tabs |-> TabIdle]
    /\ lastWrite = NoWrite

\* a JavaScript number that is an integer, and the values NaN and null
Num(n) == [kind |-> "int", n |-> n]

NaN == [kind |-> "NaN", n |-> 0]

Null == [kind |-> "null", n |-> 0]

\* the quantity fields as the pages first show them: useState(1), a line of qty 1
FieldsAtOne(stock) ==
    [stock |-> stock, detail |-> Num(1), calculator |-> Num(1), line |-> Num(1)]

FieldsIdle == fields = FieldsAtOne(1)

\* the company form as QuoteModal first renders it: useState("") everywhere,
\* no button clicked
EmptyForm == [rut |-> <<>>, razon |-> <<>>, printed |-> FALSE]

FormIdle == form = EmptyForm

\* an optional number prop or state left undefined
NoNumber == [defined |-> FALSE, value |-> NaN]

\* ProductDetail as it mounts: the modal closed, no overrides, no request for
\* a quote under way; the window open
QuoteClosed ==
    [isOpen |-> FALSE, quoteUnitPrice |-> NoNumber, quoteNetSubtotal |-> NoNumber,
     quoting |-> FALSE, windowClosed |-> FALSE]

\* nothing downloaded
NoExport == [downloaded |-> FALSE]

QuoteIdle ==
    /\ quote = QuoteClosed
    /\ exported = NoExport

\* the page is there to take an event: its window has not been closed
PageLive == ~quote.windowClosed

\* the catalog page's settings as it mounts: useState("all"), (null), (""),
\* ("name"), (null), (null)
\* selectedSupplier when it is null: the id of no supplier
NoSupplier == "null"

DefaultFilters ==
    [selectedCategory |-> "all", selectedSupplier |-> NoSupplier, searchQuery |-> <<>>,
     sortBy |-> "name", min |-> Null, max |-> Null]

\* the catalog page not visited: nothing listed
CatalogIdle ==
    catalog = [event |-> "none", filters |-> DefaultFilters, filteredProducts |-> <<>>]

\* the header and the cart panel of a tab before they mount: useState(0),
\* useState([]), useState(0), and no storage event on its way
Unmounted ==
    [mounted |-> FALSE, pending |-> 0,
     count |-> [defined |-> TRUE, value |-> 0],
     items |-> [defined |-> TRUE, value |-> <<>>],
     total |-> [defined |-> TRUE, value |-> 0]]

ViewsIdle == views = [t \in Tabs |-> Unmounted]

\* the detail page of an active product as it mounts: useState(false) of
\* adding, and no addToCart made by its button
PageAtRest(status) == [status |-> status, adding |-> FALSE, detailAdds |-> 0]

PageIdle == page = PageAtRest("active")

\* every part of the program but one at rest
Idle(except) ==
    /\ IF except \in {"pricing", "quote", "page"} THEN TRUE ELSE PricingIdle
    /\ IF except \in {"cart", "tabs", "views", "page"} THEN TRUE ELSE CartIdle
    /\ IF except = "tabs" THEN TRUE ELSE TabsIdle
    /\ IF except \in {"fields", "quote", "page"} THEN TRUE ELSE FieldsIdle
    /\ IF except = "form" THEN TRUE ELSE FormIdle
    /\ IF except \in {"quote", "page"} THEN TRUE ELSE QuoteIdle
    /\ IF except = "catalog" THEN TRUE ELSE CatalogIdle
    /\ IF except = "views" THEN TRUE ELSE ViewsIdle
    /\ IF except = "page" THEN TRUE ELSE PageIdle

PricingInit ==
    /\ Idle("pricing")
    /\ product \in Products \cup {ExampleProduct}
    /\ call = NoCall

CallSortBreaks ==
    /\ call' = [op |-> "sortBreaks", qty |-> 0, ret |-> sortBreaksCall(product).ret]
    /\ product' = sortBreaksCall(product).product
    /\ UNCHANGED NotPricing

CallGetBestBreakForQty ==
    \E q \in QtysFor(product) :
        /\ call' = [op |-> "getBestBreakForQty", qty |-> q,
                    ret |-> getBestBreakForQty(product, q)]
        /\ UNCHANGED <<product, NotPricing>>

CallGetUnitPriceForQty ==
    \E q \in QtysFor(product) :
        /\ call' = [op |-> "getUnitPriceForQty", qty |-> q,
                    ret |-> getUnitPriceForQty(product, q)]
        /\ UNCHANGED <<product, NotPricing>>

CallGetDiscountPercent ==
    \E q \in QtysFor(product) :
        /\ call' = [op |-> "getDiscountPercent", qty |-> q,
                    ret |-> getDiscountPercent(product, q)]
        /\ UNCHANGED <<product, NotPricing>>

CallComputePricing ==
    \E q \in QtysFor(product) :
        /\ call' = [op |-> "computePricing", qty |-> q,
                    ret |-> computePricing(product, q)]
        /\ UNCHANGED <<product, NotPricing>>

PricingNext ==
    \/ CallSortBreaks
    \/ CallGetBestBreakForQty
    \/ CallGetUnitPriceForQty
    \/ CallGetDiscountPercent
    \/ CallComputePricing

PricingSpec == PricingInit /\ [][PricingNext]_vars

----------------------------------------------------------------------------
(* Values of the cart (src/unnamed/part_000, lines 1-26) *)

\* A JavaScript object is a function from its property names to their values.
\* `undefined` is the empty sequence and a defined optional value v is <<v>>;
\* reading a property the object does not have gives undefined.
undefined == <<>>

Field(obj, f) == IF f \in DOMAIN obj THEN obj[f] ELSE undefined

\* ProductId = string | number
NumberId(n) == [type |-> "number", n |-> n, s |-> ""]

StringId(s) == [type |-> "string", n |-> 0, s |-> s]

\* String(id)
String(id) == IF id.type = "number" THEN ToString(id.n) ELSE id.s

\* the CartItem a caller builds: every property written, the optional ones
\* possibly with the value undefined
CartItem(id, qty, sku, color, size) ==
    [id |-> id, qty |-> qty, name |-> "name", price |-> 100,
     sku |-> sku, color |-> color, size |-> size]

----------------------------------------------------------------------------
(* Bounds of the cart *)

MaxAdds == 3        \* longest sequence of addToCart calls
MaxAddQty == 3      \* largest qty of an added item (smallest is 0)

\* the shapes of the items added: the same product id as a number and as a
\* string, and items differing from the first in sku, color or size only
ItemShapes ==
    {<<NumberId(1), "A", undefined, undefined>>,
     <<StringId("1"), "A", undefined, undefined>>,
     <<NumberId(1), "B", undefined, undefined>>,
     <<NumberId(1), "A", <<"red">>, undefined>>,
     <<NumberId(1), "A", undefined, <<"M">> >>}

CartItems ==
    {CartItem(k[1], q, k[2], k[3], k[4]) : k \in ItemShapes, q \in 0..MaxAddQty}

----------------------------------------------------------------------------
(* src/unnamed/part_000: the cart kept in localStorage under KEY *)

RECURSIVE sumOver(_, _, _)
\* items.reduce((sum, it) => sum + <term of it>, 0), term "qty" or "price*qty"
sumOver(items, term, sum) ==
    IF items = <<>> THEN sum
    ELSE sumOver(Tail(items), term,
                 sum + (IF term = "qty" THEN Head(items).qty
                        ELSE Head(items).price * Head(items).qty))

recalc(items) ==
    [items |-> items,
     totalQty |-> sumOver(items, "qty", 0),
     totalPrice |-> sumOver(items, "price*qty", 0)]

\* the properties of a CartItem that may hold undefined
OptionalFields == {"image", "color", "size"}

\* JSON.stringify of an item: a property whose value is undefined is left out
stringifyObject(obj) ==
    [f \in {g \in DOMAIN obj : ~(g \in OptionalFields /\ obj[g] = undefined)}
        |-> obj[f]]

\* JSON.stringify(state): the text, as the JSON value it denotes
stringify(state) ==
    [cart |-> [items |-> [i \in 1..Len(state.cart.items) |->
                             stringifyObject(state.cart.items[i])],
               totalQty |-> state.cart.totalQty,
               totalPrice |-> state.cart.totalPrice],
     loading |-> state.loading]

\* Storage texts that are not the JSON of an object, and the values the valid
\* ones denote.  A JavaScript object is the function of its properties; a
\* primitive is a record with the one field raw.
EmptyString == [raw |-> "empty string"]     \* the text ""

NotJSON == [raw |-> "not JSON"]             \* a text JSON.parse rejects

JSONNull == [raw |-> "null"]                \* the text null

JSONNumber == [raw |-> "number"]            \* the text of a number other than 0

\* the object {}
EmptyObject == [f \in {} |-> 0]

isPrimitive(v) == "raw" \in DOMAIN v

\* !v
falsy(v) == isPrimitive(v) /\ v.raw \in {"empty string", "null"}

\* v has a property f (a primitive has none of these)
hasProperty(v, f) == ~isPrimitive(v) /\ f \in DOMAIN v

\* JSON.parse(data) of a valid text: the value it denotes
parse(data) == data

emptyState == [cart |-> recalc(<<>>), loading |-> FALSE]

\* safeGet with no try/catch around JSON.parse
safeGetCall_noCatch(storage) ==
    IF ~storage.present THEN [threw |-> FALSE, state |-> emptyState]
    ELSE IF falsy(storage.data) THEN [threw |-> FALSE, state |-> emptyState]
    ELSE IF storage.data = NotJSON THEN [threw |-> TRUE, state |-> emptyState]
    ELSE IF ~hasProperty(parse(storage.data), "cart") THEN [threw |-> FALSE, state |-> emptyState]
    ELSE IF falsy(parse(storage.data).cart) THEN [threw |-> FALSE, state |-> emptyState]
    ELSE [threw |-> FALSE,
          state |-> [cart |-> parse(storage.data).cart, loading |-> FALSE]]

\* one call of safeGet in the browser (window is defined); storage is the
\* entry under KEY.  Whatever JSON.parse throws is caught, so threw is FALSE.
safeGetCall(storage) ==
    IF ~storage.present THEN [threw |-> FALSE, state |-> emptyState]
    ELSE LET data == storage.data
         IN IF data = EmptyString THEN [threw |-> FALSE, state |-> emptyState]
            ELSE IF data = NotJSON THEN [threw |-> FALSE, state |-> emptyState]
            ELSE LET parsed == parse(data)
                 IN IF falsy(parsed) \/ ~hasProperty(parsed, "cart")
                    THEN [threw |-> FALSE, state |-> emptyState]
                    ELSE IF falsy(parsed.cart)
                    THEN [threw |-> FALSE, state |-> emptyState]
                    ELSE [threw |-> FALSE,
                          state |-> [cart |-> parsed.cart, loading |-> FALSE]]

safeGet(storage) == safeGetCall(storage).state

\* safeSet: the entry under KEY after localStorage.setItem(KEY, JSON.stringify(state))
safeSet(state) == [present |-> TRUE, data |-> stringify(state)]

\* safeSet dispatching cart:updated before it writes
safeSetCall_notifyFirst(storage, state) ==
    [storage |-> safeSet(state), notified |-> <<storage>>]

\* one call of safeSet on the entry `storage`: the entry it leaves, and the
\* entry in place at each dispatch of cart:updated (what a listener reads)
safeSetCall(storage, state) ==
    LET written == safeSet(state)
    IN [storage |-> written, notified |-> <<written>>]

sameKey(a, b) ==
    /\ String(a.id) = String(b.id)
    /\ a.sku = b.sku
    /\ Field(a, "color") = Field(b, "color")
    /\ Field(a, "size") = Field(b, "size")

\* items.findIndex((it) => sameKey(it, item)), 0 for the program's -1
findIndex(items, item) ==
    IF \E i \in 1..Len(items) : sameKey(items[i], item)
    THEN CHOOSE i \in 1..Len(items) :
            /\ sameKey(items[i], item)
            /\ \A j \in 1..(i - 1) : ~sameKey(items[j], item)
    ELSE 0

\* item.qty || 1
qtyOrOne(qty) == IF qty = 0 THEN 1 ELSE qty

\* a call that ends in a TypeError: nothing written, nothing dispatched
Throws(storage) ==
    [threw |-> TRUE, storage |-> storage, ret |-> emptyState, notified |-> <<>>]

\* a call that writes newState with safeSet and returns it
Writes(storage, newState) ==
    [threw |-> FALSE, storage |-> safeSetCall(storage, newState).storage,
     ret |-> newState, notified |-> safeSetCall(storage, newState).notified]

\* a call that only reads and returns ret
Reads(storage, ret) ==
    [threw |-> safeGetCall(storage).threw, storage |-> storage, ret |-> ret,
     notified |-> <<>>]

\* the value of property f of the cart read, undefined when it has none
propertyOfCart(storage, f, placeholder) ==
    LET cart == safeGet(storage).cart
    IN IF hasProperty(cart, f) THEN [defined |-> TRUE, value |-> cart[f]]
       ELSE [defined |-> FALSE, value |-> placeholder]

getCart(storage) == safeGet(storage)

getCartCall(storage) == Reads(storage, getCart(storage))

\* addToCart that pushes a line whether or not the key is in the cart
addToCart_alwaysPush(storage, item) ==
    LET state == safeGet(storage)
        items == Append(state.cart.items, [item EXCEPT !.qty = qtyOrOne(item.qty)])
        newState == [cart |-> recalc(items), loading |-> FALSE]
    IN Writes(storage, newState)

\* one call of addToCart: the storage entry it leaves and the state it returns.
\* [...state.cart.items] is a TypeError when the cart read has no items.
addToCart(storage, item) ==
    LET state == safeGet(storage)
    IN IF safeGetCall(storage).threw \/ ~hasProperty(state.cart, "items")
       THEN Throws(storage)
       ELSE LET old == state.cart.items
                idx == findIndex(old, item)
                items == IF idx >= 1
                         THEN [old EXCEPT ![idx] =
                                 [old[idx] EXCEPT !.qty = old[idx].qty + item.qty]]
                         ELSE Append(old, [item EXCEPT !.qty = qtyOrOne(item.qty)])
                newState == [cart |-> recalc(items), loading |-> FALSE]
            IN Writes(storage, newState)

\* a line matched by its id alone, whatever the options
matches_idOnly(it, id, options) == String(it.id) = String(id)

\* the test of setQty and removeFromCart: the line has the id and, when
\* options are given, their sku, color and size
matches(it, id, options) ==
    /\ String(it.id) = String(id)
    /\ \/ ~options.given
       \/ /\ it.sku = options.sku
          /\ Field(it, "color") = options.color
          /\ Field(it, "size") = options.size

\* setQty that writes the new items under the totals read
setQty_staleTotals(storage, id, qty, options) ==
    LET state == safeGet(storage)
        items == [i \in 1..Len(state.cart.items) |->
                     IF matches(state.cart.items[i], id, options)
                     THEN [state.cart.items[i] EXCEPT !.qty = Max2(1, qty)]
                     ELSE state.cart.items[i]]
    IN Writes(storage, [cart |-> [state.cart EXCEPT !.items = items],
                        loading |-> FALSE])

\* one call of setQty; state.cart.items.map is a TypeError without items
setQty(storage, id, qty, options) ==
    LET state == safeGet(storage)
    IN IF safeGetCall(storage).threw \/ ~hasProperty(state.cart, "items")
       THEN Throws(storage)
       ELSE LET old == state.cart.items
                items == [i \in 1..Len(old) |->
                             IF matches(old[i], id, options)
                             THEN [old[i] EXCEPT !.qty = Max2(1, qty)]
                             ELSE old[i]]
            IN Writes(storage, [cart |-> recalc(items), loading |-> FALSE])

\* one call of removeFromCart; state.cart.items.filter is a TypeError without items
removeFromCart(storage, id, options) ==
    LET state == safeGet(storage)
    IN IF safeGetCall(storage).threw \/ ~hasProperty(state.cart, "items")
       THEN Throws(storage)
       ELSE LET keep(it) == ~matches(it, id, options)
                items == SelectSeq(state.cart.items, keep)
            IN Writes(storage, [cart |-> recalc(items), loading |-> FALSE])

\* one call of clearCart: it does not read the cart
clearCart(storage) == Writes(storage, emptyState)

\* the helpers return the property of whatever cart safeGet gave them
getCartTotalCall(storage) == Reads(storage, propertyOfCart(storage, "totalPrice", 0))

getCartItemsCall(storage) == Reads(storage, propertyOfCart(storage, "items", <<>>))

getCartItemCountCall(storage) == Reads(storage, propertyOfCart(storage, "totalQty", 0))

getCartItems(storage) == safeGet(storage).cart.items

----------------------------------------------------------------------------
(* The cart under a sequence of addToCart calls *)

CartInit ==
    /\ Idle("cart")
    /\ localStorage = [present |-> FALSE]
    /\ addLog = <<>>
    /\ cartCall = NoCartCall

AddToCart ==
    \E item \in CartItems :
        /\ Len(addLog) < MaxAdds
        /\ localStorage' = addToCart(localStorage, item).storage
        /\ addLog' = Append(addLog, item)
        /\ cartCall' = [op |-> "addToCart", threw |-> addToCart(localStorage, item).threw,
                        ret |-> addToCart(localStorage, item).ret,
                        notified |-> addToCart(localStorage, item).notified]
        /\ UNCHANGED NotCart

CartNext == AddToCart

CartSpec == CartInit /\ [][CartNext]_vars

----------------------------------------------------------------------------
(* The cart under every operation of its API *)

MaxCartQty == 3     \* largest totalQty a call may leave in the cart
MaxOpQty == 2       \* largest qty of an item added (smallest is 0)

\* id, sku, color, size of the items the calls are made with
OpShapes ==
    {<<NumberId(1), "A", undefined, undefined>>,
     <<StringId("1"), "A", undefined, undefined>>,
     <<NumberId(2), "A", undefined, undefined>>,
     <<NumberId(1), "A", <<"red">>, undefined>>}

OpPrices == {100, 250}

OpItems ==
    {[CartItem(k[1], q, k[2], k[3], k[4]) EXCEPT !.price = p] :
        k \in OpShapes, q \in 0..MaxOpQty, p \in OpPrices}

\* the options argument of setQty and removeFromCart: left out, or the sku,
\* color and size of a line
NoOptions == [given |-> FALSE, sku |-> "", color |-> undefined, size |-> undefined]

OpOptions ==
    {NoOptions} \cup
    {[given |-> TRUE, sku |-> k[2], color |-> k[3], size |-> k[4]] : k \in OpShapes}

OpIds == {k[1] : k \in OpShapes}

\* what localStorage may hold under KEY when the page loads: nothing, texts
\* that are not the JSON of a state, and JSON whose cart is not a whole cart
MissingKey == [present |-> FALSE]

Stored(data) == [present |-> TRUE, data |-> data]

NoCartStorages ==
    {MissingKey, Stored(EmptyString), Stored(NotJSON), Stored(JSONNull),
     Stored(JSONNumber), Stored(EmptyObject), Stored([loading |-> FALSE])}

BrokenCartStorages ==
    {Stored([cart |-> EmptyObject, loading |-> FALSE]),
     Stored([cart |-> [totalQty |-> 0, totalPrice |-> 0], loading |-> FALSE]),
     Stored([cart |-> [items |-> <<>>], loading |-> FALSE]),
     Stored([cart |-> JSONNumber, loading |-> FALSE])}

InitialStorages ==
    NoCartStorages \cup BrokenCartStorages \cup
    {Stored([cart |-> JSONNull, loading |-> FALSE]),
     safeSet(emptyState)}

\* cartCall after a call op with the given outcome
Outcome(op, out) ==
    [op |-> op, threw |-> out.threw, ret |-> out.ret, notified |-> out.notified]

\* the totalQty a call leaves in storage, 0 when it leaves no whole cart
leftQty(out) ==
    IF hasProperty(safeGet(out.storage).cart, "totalQty")
    THEN safeGet(out.storage).cart.totalQty ELSE 0

GetCart ==
    LET out == getCartCall(localStorage)
    IN /\ leftQty(out) <= MaxCartQty
       /\ localStorage' = out.storage
       /\ cartCall' = Outcome("getCart", out)
       /\ UNCHANGED <<addLog, NotCart>>

GetCartItems ==
    LET out == getCartItemsCall(localStorage)
    IN /\ leftQty(out) <= MaxCartQty
       /\ localStorage' = out.storage
       /\ cartCall' = Outcome("getCartItems", out)
       /\ UNCHANGED <<addLog, NotCart>>

GetCartTotal ==
    LET out == getCartTotalCall(localStorage)
    IN /\ leftQty(out) <= MaxCartQty
       /\ localStorage' = out.storage
       /\ cartCall' = Outcome("getCartTotal", out)
       /\ UNCHANGED <<addLog, NotCart>>

GetCartItemCount ==
    LET out == getCartItemCountCall(localStorage)
    IN /\ leftQty(out) <= MaxCartQty
       /\ localStorage' = out.storage
       /\ cartCall' = Outcome("getCartItemCount", out)
       /\ UNCHANGED <<addLog, NotCart>>

\* addToCart called with any item, the calls not logged
CallAddToCart ==
    \E item \in OpItems :
        LET out == addToCart(localStorage, item)
        IN /\ leftQty(out) <= MaxCartQty
           /\ localStorage' = out.storage
           /\ cartCall' = Outcome("addToCart", out)
           /\ UNCHANGED <<addLog, NotCart>>

SetQty ==
    \E id \in OpIds, qty \in -1..MaxCartQty, options \in OpOptions :
        LET out == setQty(localStorage, id, qty, options)
        IN /\ leftQty(out) <= MaxCartQty
           /\ localStorage' = out.storage
           /\ cartCall' = Outcome("setQty", out)
           /\ UNCHANGED <<addLog, NotCart>>

RemoveFromCart ==
    \E id \in OpIds, options \in OpOptions :
        LET out == removeFromCart(localStorage, id, options)
        IN /\ leftQty(out) <= MaxCartQty
           /\ localStorage' = out.storage
           /\ cartCall' = Outcome("removeFromCart", out)
           /\ UNCHANGED <<addLog, NotCart>>

ClearCart ==
    LET out == clearCart(localStorage)
    IN /\ leftQty(out) <= MaxCartQty
       /\ localStorage' = out.storage
       /\ cartCall' = Outcome("clearCart", out)
       /\ UNCHANGED <<addLog, NotCart>>

CartOpsNext ==
    \/ GetCart
    \/ GetCartItems
    \/ GetCartTotal
    \/ GetCartItemCount
    \/ CallAddToCart
    \/ SetQty
    \/ RemoveFromCart
    \/ ClearCart

\* the API used on a browser whose storage has no entry under KEY yet
CartOpsInit ==
    /\ Idle("cart")
    /\ CartIdle

CartOpsSpec == CartOpsInit /\ [][CartOpsNext]_vars

\* the API used on whatever the storage holds under KEY
StorageInit ==
    /\ Idle("cart")
    /\ localStorage \in InitialStorages
    /\ addLog = <<>>
    /\ cartCall = NoCartCall

StorageSpec == StorageInit /\ [][CartOpsNext]_vars

----------------------------------------------------------------------------
(* Two browser tabs calling the cart API on the same storage entry.  A call
   runs to its end inside its tab, but the other tab may run between its
   localStorage.getItem and its localStorage.setItem. *)

MaxTabQty == 2      \* largest totalQty a tab's call may write

TabItemA == CartItem(NumberId(1), 1, "A", undefined, undefined)

TabItemB == CartItem(NumberId(1), 1, "B", undefined, undefined)

\* the calls a tab makes that read the entry before they write it
TabCalls ==
    {[op |-> "addToCart", item |-> TabItemA],
     [op |-> "addToCart", item |-> TabItemB],
     [op |-> "setQty", id |-> NumberId(1), qty |-> MaxTabQty, options |-> NoOptions],
     [op |-> "removeFromCart", id |-> NumberId(1),
      options |-> [given |-> TRUE, sku |-> "A", color |-> undefined, size |-> undefined]]}

\* the entry a call leaves when the entry it read was `read`
Apply(c, read) ==
    IF c.op = "addToCart" THEN addToCart(read, c.item).storage
    ELSE IF c.op = "setQty" THEN setQty(read, c.id, c.qty, c.options).storage
    ELSE IF c.op = "removeFromCart" THEN removeFromCart(read, c.id, c.options).storage
    ELSE clearCart(read).storage

\* setItem that adds the lines already stored to the lines it writes
setItem_merge(stored, written) ==
    IF stored.present
    THEN safeSet([cart |-> recalc(written.data.cart.items \o stored.data.cart.items),
                  loading |-> FALSE])
    ELSE written

\* localStorage.setItem(KEY, text): the entry after it, whatever was stored
setItem(stored, written) == written

\* tab t enters a call and reads the entry: safeGet's localStorage.getItem
TabRead(t) ==
    \E c \in TabCalls :
        /\ tabs[t].pc = "idle"
        /\ leftQty([storage |-> Apply(c, localStorage)]) <= MaxTabQty
        /\ tabs' = [tabs EXCEPT ![t] = [pc |-> "write", call |-> c, read |-> localStorage]]
        /\ UNCHANGED <<localStorage, lastWrite, NotTabs>>

\* tab t writes the state it computed from what it read: safeSet's setItem
TabWrite(t) ==
    /\ tabs[t].pc = "write"
    /\ localStorage' = setItem(localStorage, Apply(tabs[t].call, tabs[t].read))
    /\ lastWrite' = [tab |-> t, call |-> tabs[t].call, read |-> tabs[t].read,
                     replaced |-> localStorage]
    /\ tabs' = [tabs EXCEPT ![t] = TabIdle]
    /\ UNCHANGED NotTabs

\* tab t calls clearCart, which writes without reading
TabClearCart(t) ==
    /\ tabs[t].pc = "idle"
    /\ localStorage' = setItem(localStorage, clearCart(localStorage).storage)
    /\ lastWrite' = [tab |-> t, call |-> [op |-> "clearCart"], read |-> localStorage,
                     replaced |-> localStorage]
    /\ UNCHANGED <<tabs, NotTabs>>

TabsNext ==
    \E t \in Tabs :
        \/ TabRead(t)
        \/ TabWrite(t)
        \/ TabClearCart(t)

TabsInit ==
    /\ Idle("tabs")
    /\ CartIdle
    /\ TabsIdle

TabsSpec == TabsInit /\ [][TabsNext]_vars

----------------------------------------------------------------------------
(* The header's badge and the cart panel of each tab, following the storage
   entry through cart:updated in their own tab and through the storage
   event in the others *)

MaxPending == 1     \* most storage events on their way to one tab

\* what the storage entry may hold when the first tab opens: nothing, or
\* the cart of an earlier visit
EarlierVisits == {MissingKey, safeSet([cart |-> recalc(<<TabItemB>>), loading |-> FALSE])}

\* the calls the pages and the panel make
ViewCalls == TabCalls \cup {[op |-> "clearCart"]}

\* the outcome of a call on the entry `storage`
CallOn(c, storage) ==
    IF c.op = "addToCart" THEN addToCart(storage, c.item)
    ELSE IF c.op = "setQty" THEN setQty(storage, c.id, c.qty, c.options)
    ELSE IF c.op = "removeFromCart" THEN removeFromCart(storage, c.id, c.options)
    ELSE clearCart(storage)

\* the header's listener counting the lines of the cart
onCart_lines(storage) ==
    [defined |-> TRUE, value |-> Len(getCartItemsCall(storage).ret.value)]

\* the header's onCart (and its first effect): the count getCartItemCount()
\* gives on the entry in place
onCart(storage) == getCartItemCountCall(storage).ret

\* the panel's reload: setItems(getCartItems()), setTotal(getCartTotal())
reload(view, storage) ==
    [view EXCEPT !.items = getCartItemsCall(storage).ret,
                 !.total = getCartTotalCall(storage).ret]

\* a tab's header and panel after their listeners ran on the entry in place
Refreshed(view, storage) == [reload(view, storage) EXCEPT !.count = onCart(storage)]

RECURSIVE Notified(_, _)
\* a tab's header and panel after each dispatch of cart:updated of a call
Notified(view, entries) ==
    IF entries = <<>> THEN view
    ELSE Notified(Refreshed(view, Head(entries)), Tail(entries))

\* the app mounts in tab t: the effects of Header and CartAside read the cart
\* and add their listeners
Mount(t) ==
    /\ ~views[t].mounted
    /\ views' = [views EXCEPT
                    ![t] = Refreshed([views[t] EXCEPT !.mounted = TRUE], localStorage)]
    /\ lastWrite' = NoWrite
    /\ UNCHANGED <<localStorage, NotViews>>

\* a page or the panel of tab t makes a call: the call writes and dispatches
\* cart:updated in the tab, and the browser queues a storage event for
\* every other tab if the entry changed
Mutate(t) ==
    \E c \in ViewCalls :
        LET out == CallOn(c, localStorage)
            heard(u) == u # t /\ views[u].mounted /\ out.storage # localStorage
        IN /\ views[t].mounted
           /\ leftQty(out) <= MaxTabQty
           /\ \A u \in Tabs : heard(u) => views[u].pending < MaxPending
           /\ localStorage' = out.storage
           /\ lastWrite' = [tab |-> t, call |-> c, read |-> localStorage,
                            replaced |-> localStorage]
           /\ views' = [u \in Tabs |->
                          IF u = t THEN Notified(views[t], out.notified)
                          ELSE IF heard(u)
                               THEN [views[u] EXCEPT !.pending = @ + 1]
                               ELSE views[u]]
           /\ UNCHANGED NotViews

\* a storage event reaches tab t: onCart and reload read the entry in place
Deliver(t) ==
    /\ views[t].pending > 0
    /\ views' = [views EXCEPT
                    ![t] = Refreshed([views[t] EXCEPT !.pending = @ - 1], localStorage)]
    /\ lastWrite' = NoWrite
    /\ UNCHANGED <<localStorage, NotViews>>

ViewsNext ==
    \E t \in Tabs :
        \/ Mount(t)
        \/ Mutate(t)
        \/ Deliver(t)

ViewsInit ==
    /\ Idle("views")
    /\ localStorage \in EarlierVisits
    /\ addLog = <<>>
    /\ cartCall = NoCartCall
    /\ ViewsIdle

ViewsSpec == ViewsInit /\ [][ViewsNext]_vars

----------------------------------------------------------------------------
(* The lines of the cart under addToCart, setQty and removeFromCart, one
   call at a time: the call is entered with its arguments, then runs *)

\* the items added: every shape with qty 0 and 1 at one price, and the first
\* shape again at another price
LineItems ==
    {CartItem(k[1], q, k[2], k[3], k[4]) : k \in OpShapes, q \in 0..1}
    \cup {[CartItem(NumberId(1), 1, "A", undefined, undefined) EXCEPT !.price = 250]}

LineCalls ==
    {[op |-> "addToCart", item |-> item] : item \in LineItems}
    \cup {[op |-> "setQty", id |-> id, qty |-> qty, options |-> options] :
             id \in OpIds, qty \in {0, MaxOpQty}, options \in OpOptions}
    \cup {[op |-> "removeFromCart", id |-> id, options |-> options] :
             id \in OpIds, options \in OpOptions}

\* a page calls addToCart, setQty or removeFromCart with its arguments
EnterCall ==
    \E c \in LineCalls :
        /\ tabs[1].pc \in {"idle", "done"}
        /\ leftQty(CallOn(c, localStorage)) <= MaxCartQty
        /\ tabs' = [tabs EXCEPT ![1] = [pc |-> "write", call |-> c, read |-> localStorage]]
        /\ UNCHANGED <<localStorage, lastWrite, NotTabs>>

\* the call runs: safeGet, the new items, recalc, safeSet
RunCall ==
    /\ tabs[1].pc = "write"
    /\ localStorage' = CallOn(tabs[1].call, localStorage).storage
    /\ tabs' = [tabs EXCEPT ![1] = [pc |-> "done", op |-> tabs[1].call.op]]
    /\ UNCHANGED <<lastWrite, NotTabs>>

LinesNext ==
    \/ EnterCall
    \/ RunCall

LinesInit ==
    /\ Idle("tabs")
    /\ CartIdle
    /\ TabsIdle

LinesSpec == LinesInit /\ [][LinesNext]_vars

----------------------------------------------------------------------------
(* The quantity fields: ProductDetail (src/src/pages/ProductList.tsx),
   PricingCalculator (src/unnamed/part_001) and a line of the cart panel
   (src/src/components/CartAside.tsx) *)

MaxFieldQty == 4    \* the plus buttons are not clicked at or above this quantity
MaxStock == 2       \* largest stock of the product (smallest is 0)

Digits == {"0", "1", "2", "3", "4", "5", "6", "7", "8", "9"}

\* the number a digit character stands for
digitValue(c) == CHOOSE d \in 0..9 : ToString(d) = c

\* e.target.value of an <input type="number">, as its characters: the empty
\* text (nothing typed, or something that is no number) and numbers as typed
TypedTexts ==
    {<<>>, <<"0">>, <<"2">>, <<"7">>, <<"-", "3">>, <<".", "5">>, <<"1", ".", "5">>}

\* text || "1"
textOrOne(text) == IF text = <<>> THEN <<"1">> ELSE text

RECURSIVE leadingDigits(_, _)
\* the value of the longest run of digits text starts with, after the digits
\* read so far (seen = -1 for none yet); -1 when text starts with no digit
leadingDigits(text, seen) ==
    IF text # <<>> /\ Head(text) \in Digits
    THEN leadingDigits(Tail(text),
                       (IF seen = -1 THEN 0 ELSE 10 * seen) + digitValue(Head(text)))
    ELSE seen

\* parseInt(text, 10): an optional sign, then the leading digits; NaN with none
parseInt(text) ==
    LET negative == text # <<>> /\ Head(text) = "-"
        signed == text # <<>> /\ Head(text) \in {"-", "+"}
        digits == leadingDigits(IF signed THEN Tail(text) ELSE text, -1)
    IN IF digits = -1 THEN NaN
       ELSE IF negative THEN Num(0 - digits) ELSE Num(digits)

\* ToNumber of a value handed to arithmetic: null counts as 0
toNumber(x) == IF x.kind = "null" THEN Num(0) ELSE x

\* Math.max(a, b) and Math.min(a, b): NaN if either is NaN
mathMax(a, b) ==
    IF toNumber(a).kind = "NaN" \/ toNumber(b).kind = "NaN" THEN NaN
    ELSE Num(Max2(toNumber(a).n, toNumber(b).n))

mathMin(a, b) ==
    IF toNumber(a).kind = "NaN" \/ toNumber(b).kind = "NaN" THEN NaN
    ELSE Num(Min2(toNumber(a).n, toNumber(b).n))

\* a + d for an integer d
plus(a, d) == IF toNumber(a).kind = "NaN" THEN NaN ELSE Num(toNumber(a).n + d)

\* x || 1 for a number x: 0 and NaN are falsy
orOne(x) == IF x.kind = "NaN" \/ (x.kind = "int" /\ x.n = 0) THEN Num(1) ELSE x

\* a number after JSON.stringify and JSON.parse: NaN is written as null
throughJSON(x) == IF x.kind = "NaN" THEN Null ELSE x

\* the qty the panel shows for the line after setQty(it.id, qty, options) and
\* the reload from storage: setQty stores Math.max(1, qty)
lineAfterSetQty(qty) == throughJSON(mathMax(Num(1), qty))

\* still within the quantities the plus buttons are clicked at
BelowCap(x) == x.kind = "int" => x.n < MaxFieldQty

\* ProductDetail: the minus button
DetailMinus ==
    /\ PageLive
    /\ fields' = [fields EXCEPT !.detail = mathMax(Num(1), plus(fields.detail, -1))]
    /\ exported' = NoExport
    /\ UNCHANGED NotFields

\* ProductDetail: typing in the quantity input
DetailType ==
    \E text \in TypedTexts :
        /\ PageLive
        /\ fields' = [fields EXCEPT !.detail = mathMax(Num(1), orOne(parseInt(text)))]
        /\ exported' = NoExport
        /\ UNCHANGED NotFields

\* ProductDetail: the plus button
DetailPlus ==
    /\ PageLive
    /\ BelowCap(fields.detail)
    /\ fields' = [fields EXCEPT !.detail = plus(fields.detail, 1)]
    /\ exported' = NoExport
    /\ UNCHANGED NotFields

\* PricingCalculator: typing in the quantity input
CalculatorType ==
    \E text \in TypedTexts :
        /\ PageLive
        /\ fields' = [fields EXCEPT !.calculator =
                         mathMin(Num(fields.stock),
                                 mathMax(Num(1), parseInt(textOrOne(text))))]
        /\ exported' = NoExport
        /\ UNCHANGED NotFields

\* PricingCalculator: clicking one of the price breaks shown
CalculatorBreakClick ==
    \E priceBreak \in Range(sortBreaks(product)) :
        /\ PageLive
        /\ fields' = [fields EXCEPT !.calculator = Num(priceBreak.minQty)]
        /\ exported' = NoExport
        /\ UNCHANGED NotFields

\* CartAside: the minus button of the line
LineMinus ==
    /\ PageLive
    /\ fields' = [fields EXCEPT !.line =
                     lineAfterSetQty(mathMax(Num(1), plus(fields.line, -1)))]
    /\ exported' = NoExport
    /\ UNCHANGED NotFields

\* CartAside: typing in the qty input of the line
LineType ==
    \E text \in TypedTexts :
        /\ PageLive
        /\ fields' = [fields EXCEPT !.line =
                         lineAfterSetQty(mathMax(Num(1), parseInt(textOrOne(text))))]
        /\ exported' = NoExport
        /\ UNCHANGED NotFields

\* CartAside: the plus button of the line
LinePlus ==
    /\ PageLive
    /\ BelowCap(fields.line)
    /\ fields' = [fields EXCEPT !.line = lineAfterSetQty(plus(fields.line, 1))]
    /\ exported' = NoExport
    /\ UNCHANGED NotFields

FieldsNext ==
    \/ DetailMinus
    \/ DetailType
    \/ DetailPlus
    \/ CalculatorType
    \/ CalculatorBreakClick
    \/ LineMinus
    \/ LineType
    \/ LinePlus

FieldsInit ==
    /\ Idle("fields")
    /\ \E stock \in 0..MaxStock : fields = FieldsAtOne(stock)

FieldsSpec == FieldsInit /\ [][FieldsNext]_vars

----------------------------------------------------------------------------
(* src/src/components/Header.tsx, QuoteModal: the RUT helpers and the company
   form.  A text is the sequence of its characters. *)

MaxRutLen == 4      \* longest RUT text typed key by key

\* the keys typed into the RUT input
RutChars == {"1", "6", "9", "K", "k", ".", "-"}

\* texts pasted into the RUT input: the placeholder's number with its check
\* digit, the placeholder itself, a body of nine digits with its check digit,
\* and a RUT whose check digit is 0
ExampleRuts ==
    {<<"1", "4", "-", "0">>,
     <<"1", "2", ".", "3", "4", "5", ".", "6", "7", "8", "-", "5">>,
     <<"1", "2", ".", "3", "4", "5", ".", "6", "7", "8", "-", "9">>,
     <<"1", "2", "3", "4", "5", "6", "7", "8", "9", "2">>}

\* the letters, in lower case and in upper case
LowerCase ==
    <<"a", "b", "c", "d", "e", "f", "g", "h", "i", "j", "k", "l", "m",
      "n", "o", "p", "q", "r", "s", "t", "u", "v", "w", "x", "y", "z">>

UpperCase ==
    <<"A", "B", "C", "D", "E", "F", "G", "H", "I", "J", "K", "L", "M",
      "N", "O", "P", "Q", "R", "S", "T", "U", "V", "W", "X", "Y", "Z">>

\* c.toUpperCase() for one character
toUpperCase(c) ==
    IF \E i \in 1..26 : LowerCase[i] = c
    THEN UpperCase[CHOOSE i \in 1..26 : LowerCase[i] = c]
    ELSE c

\* rut.replace(/\./g, "").replace(/-/g, "").toUpperCase()
cleanRut(rut) ==
    LET kept(c) == c \notin {".", "-"}
        stripped == SelectSeq(rut, kept)
    IN [i \in 1..Len(stripped) |-> toUpperCase(stripped[i])]

\* text.slice(0, -1) and text.slice(-1)
sliceBody(text) == IF text = <<>> THEN <<>> ELSE SubSeq(text, 1, Len(text) - 1)

sliceLast(text) == IF text = <<>> THEN <<>> ELSE <<text[Len(text)]>>

RECURSIVE calcDVLoop(_, _, _)
\* the for loop of calcDV: one digit taken off the right end per round
calcDVLoop(rutNumber, M, S) ==
    IF rutNumber = <<>> THEN S
    ELSE calcDVLoop(sliceBody(rutNumber), M + 1,
                    (S + digitValue(sliceLast(rutNumber)[1]) * (9 - (M % 6))) % 11)

\* calcDV whose sum starts at 0
calcDV_fromZero(rutNumber) ==
    LET S == calcDVLoop(rutNumber, 0, 0)
    IN IF S # 0 THEN <<ToString(S - 1)>> ELSE <<"K">>

\* calcDV of a text of digits: the check digit as a text of one character
calcDV(rutNumber) ==
    LET S == calcDVLoop(rutNumber, 0, 1)
    IN IF S # 0 THEN <<ToString(S - 1)>> ELSE <<"K">>

\* /^\d{1,8}[0-9K]$/.test(c)
matchesRutPattern(c) ==
    /\ Len(c) \in 2..9
    /\ \A i \in 1..(Len(c) - 1) : c[i] \in Digits
    /\ c[Len(c)] \in Digits \cup {"K"}

validateRut(rut) ==
    LET c == cleanRut(rut)
    IN IF ~matchesRutPattern(c) THEN FALSE
       ELSE calcDV(sliceBody(c)) = sliceLast(c)

\* rutOk: rut ? validateRut(rut) : true
rutOk(rut) == IF rut # <<>> THEN validateRut(rut) ELSE TRUE

\* the print button disabled whenever the RUT does not validate
printDisabled_emptyToo(rut) == ~validateRut(rut)

\* disabled={!rutOk && !!rut} of the print button
printDisabled(rut) == ~rutOk(rut) /\ rut # <<>>

\* the attributes QuoteModal renders: no input and no other button has a
\* disabled attribute
Rendered ==
    [inputsDisabled |-> FALSE,
     exportDisabled |-> FALSE,
     printDisabled |-> printDisabled(form.rut)]

\* onChange of the RUT input, by what was done to the text: a key typed
TypeRut ==
    \E c \in RutChars :
        /\ PageLive
        /\ ~Rendered.inputsDisabled
        /\ Len(form.rut) < MaxRutLen
        /\ form' = [form EXCEPT !.rut = Append(form.rut, c), !.printed = FALSE]
        /\ exported' = NoExport
        /\ UNCHANGED NotForm

\* onChange of the RUT input: the last character deleted
BackspaceRut ==
    /\ PageLive
    /\ ~Rendered.inputsDisabled
    /\ form.rut # <<>>
    /\ form' = [form EXCEPT !.rut = sliceBody(form.rut), !.printed = FALSE]
    /\ exported' = NoExport
    /\ UNCHANGED NotForm

\* onChange of the RUT input: a text pasted over the field
PasteRut ==
    \E text \in ExampleRuts :
        /\ PageLive
        /\ ~Rendered.inputsDisabled
        /\ form' = [form EXCEPT !.rut = text, !.printed = FALSE]
        /\ exported' = NoExport
        /\ UNCHANGED NotForm

\* onChange of another input of the form (razon stands for all of them)
TypeRazon ==
    \E text \in {<<>>, <<"S", "p", "A">>} :
        /\ PageLive
        /\ ~Rendered.inputsDisabled
        /\ form' = [form EXCEPT !.razon = text, !.printed = FALSE]
        /\ exported' = NoExport
        /\ UNCHANGED NotForm

\* a click of the print button reaches handlePrint unless the button is disabled
HandlePrint ==
    /\ PageLive
    /\ ~Rendered.printDisabled
    /\ form' = [form EXCEPT !.printed = TRUE]
    /\ exported' = NoExport
    /\ UNCHANGED NotForm

\* the number of digits text has from position p on, before any other character
RECURSIVE digitRun(_, _)
digitRun(text, p) ==
    IF p <= Len(text) /\ text[p] \in Digits THEN 1 + digitRun(text, p + 1) ELSE 0

RECURSIVE withDotsFrom(_, _)
\* body.replace(/\B(?=(\d{3})+(?!\d))/g, "."), from position p on: a dot goes
\* before position p when p is inside the text (its characters are all word
\* characters) and the digits from p on are three, six, nine, ... in a row
withDotsFrom(body, p) ==
    IF p > Len(body) THEN <<>>
    ELSE (IF p > 1 /\ digitRun(body, p) > 0 /\ digitRun(body, p) % 3 = 0
          THEN <<".">> ELSE <<>>)
         \o <<body[p]>> \o withDotsFrom(body, p + 1)

\* formatRut: 12.345.678-9 from the cleaned text
formatRut(rut) ==
    LET c == cleanRut(rut)
    IN IF c = <<>> THEN <<>>
       ELSE withDotsFrom(sliceBody(c), 1) \o <<"-">> \o sliceLast(c)

\* a * b of two numbers that are not null
times(a, b) == IF a.kind = "NaN" \/ b.kind = "NaN" THEN NaN ELSE Num(a.n * b.n)

\* computePricing(product, quantity) for the quantity of a page, which may be
\* NaN: no break is eligible then, and every product with NaN is NaN.  The
\* discount percent is a fraction, or NaN.
computePricingOf(p, quantity) ==
    IF quantity.kind = "int"
    THEN [unitPrice |-> Num(computePricing(p, quantity.n).unitPrice),
          netSubtotal |-> Num(computePricing(p, quantity.n).netSubtotal),
          discountPercent |-> [kind |-> "fraction",
                               value |-> computePricing(p, quantity.n).discountPercent]]
    ELSE [unitPrice |-> Num(p.basePrice), netSubtotal |-> NaN,
          discountPercent |-> [kind |-> "NaN", value |-> Zero]]

\* override ?? computed
orComputed(override, computed) == IF override.defined THEN override.value ELSE computed

\* Number(discountPercent.toFixed(1)), in tenths
toFixed1(percent) ==
    IF percent.kind = "NaN" THEN NaN
    ELSE Num((20 * percent.value.num + percent.value.den) \div (2 * percent.value.den))

\* netSubtotal * IVA and netSubtotal + iva, in hundredths of a peso
ivaOf(netSubtotal) == times(netSubtotal, Num(19))

totalOf(netSubtotal) == times(netSubtotal, Num(119))

\* Math.round of an amount given in hundredths: the nearest integer, halves up
mathRound(hundredths) ==
    IF hundredths.kind = "NaN" THEN NaN ELSE Num((hundredths.n + 50) \div 100)

\* the props QuoteModal gets from ProductDetail and the summary it derives
modalQuantity == fields.detail

modalUnitPrice ==
    orComputed(quote.quoteUnitPrice, computePricingOf(product, modalQuantity).unitPrice)

modalNetSubtotal ==
    orComputed(quote.quoteNetSubtotal, computePricingOf(product, modalQuantity).netSubtotal)

\* the payload of handleExportJSON without its type, its timestamp and the
\* product's and company's other texts; discountPercent in tenths
payload ==
    [company |-> [rut |-> formatRut(form.rut), razon |-> form.razon],
     items |-> <<[qty |-> modalQuantity,
                  unitPriceCLP |-> modalUnitPrice,
                  lineNetCLP |-> modalNetSubtotal,
                  discountPercent |->
                      toFixed1(computePricingOf(product, modalQuantity).discountPercent)]>>,
     totals |-> [netCLP |-> mathRound(times(modalNetSubtotal, Num(100))),
                 ivaRate |-> 19,
                 ivaCLP |-> mathRound(ivaOf(modalNetSubtotal)),
                 totalCLP |-> mathRound(totalOf(modalNetSubtotal))]]

\* a click of the export button: handleExportJSON downloads the payload
ExportJSON ==
    /\ PageLive
    /\ ~Rendered.exportDisabled
    /\ exported' = [downloaded |-> TRUE, payload |-> payload]
    /\ UNCHANGED <<form, fields, quote, NotQuote>>

FormNext ==
    \/ TypeRut
    \/ BackspaceRut
    \/ PasteRut
    \/ TypeRazon
    \/ HandlePrint
    \/ ExportJSON

FormInit ==
    /\ Idle("form")
    /\ form = EmptyForm

FormSpec == FormInit /\ [][FormNext]_vars

----------------------------------------------------------------------------
(* src/src/pages/ProductList.tsx, ProductDetail: the quote modal opened from
   the page and from its pricing calculator, closed, and exported *)

\* the product of the detail page: basePrice 1000, breaks 3 -> 900, 6 -> 800
QuoteProduct ==
    [basePrice |-> 1000,
     priceBreaks |-> [defined |-> TRUE,
                      value |-> <<[minQty |-> 3, price |-> 900],
                                  [minQty |-> 6, price |-> 800]>>]]

\* handleOpenQuote up to its await: nothing if a request is under way
HandleOpenQuote ==
    /\ PageLive
    /\ ~quote.quoting
    /\ quote' = [quote EXCEPT !.quoting = TRUE]
    /\ exported' = NoExport
    /\ UNCHANGED <<fields, NotQuote>>

\* handleOpenQuote after the 200 ms: openQuoteFromDetail, then the finally
OpenQuoteFromDetail ==
    /\ PageLive
    /\ quote.quoting
    /\ quote' = [quote EXCEPT !.quoteUnitPrice = NoNumber,
                              !.quoteNetSubtotal = NoNumber,
                              !.isOpen = TRUE,
                              !.quoting = FALSE]
    /\ exported' = NoExport
    /\ UNCHANGED <<fields, NotQuote>>

\* the calculator's quote button: onOpenQuote with what the calculator
\* computed for its own quantity, handled by openQuoteFromCalculator
OpenQuoteFromCalculator ==
    LET ctx == [quantity |-> fields.calculator,
                unitPrice |-> computePricingOf(product, fields.calculator).unitPrice,
                netSubtotal |-> computePricingOf(product, fields.calculator).netSubtotal]
    IN /\ PageLive
       /\ fields' = [fields EXCEPT !.detail = ctx.quantity]
       /\ quote' = [quote EXCEPT
                       !.quoteUnitPrice = [defined |-> TRUE, value |-> ctx.unitPrice],
                       !.quoteNetSubtotal = [defined |-> TRUE, value |-> ctx.netSubtotal],
                       !.isOpen = TRUE]
       /\ exported' = NoExport
       /\ UNCHANGED NotQuote

\* a click on the overlay: onClose, which is the parent's setIsOpen(false)
OverlayClick ==
    /\ PageLive
    /\ quote' = [quote EXCEPT !.isOpen = FALSE]
    /\ exported' = NoExport
    /\ UNCHANGED <<fields, NotQuote>>

\* a click on the X of the modal's header: onClick={close}, and QuoteModal
\* declares no close, so this is window.close(); it closes the window if a
\* script opened it and does nothing otherwise
CloseButtonClick ==
    \E scriptOpened \in BOOLEAN :
        /\ PageLive
        /\ quote' = [quote EXCEPT !.windowClosed = scriptOpened]
        /\ exported' = NoExport
        /\ UNCHANGED <<fields, NotQuote>>

QuoteNext ==
    \/ DetailMinus
    \/ DetailType
    \/ DetailPlus
    \/ CalculatorType
    \/ CalculatorBreakClick
    \/ HandleOpenQuote
    \/ OpenQuoteFromDetail
    \/ OpenQuoteFromCalculator
    \/ OverlayClick
    \/ CloseButtonClick
    \/ ExportJSON

QuoteInit ==
    /\ Idle("quote")
    /\ product = QuoteProduct
    /\ call = NoCall
    /\ \E stock \in 0..MaxStock : fields = FieldsAtOne(stock)
    /\ quote = QuoteClosed
    /\ exported = NoExport

QuoteSpec == QuoteInit /\ [][QuoteNext]_vars

----------------------------------------------------------------------------
(* The detail page's two ways into the cart: its own button, guarded by the
   product's status and stock and by the adding flag, and the button of the
   pricing calculator *)

\* the status a product may have
Statuses == {"active", "inactive"}

\* product.status === "active" && product.stock > 0
canAddToCart == page.status = "active" /\ fields.stock > 0

\* the item the detail button adds: the unit price of the page's quantity,
\* the colour and size selected (here the first colour, and no size)
DetailItem ==
    [CartItem(NumberId(1), fields.detail.n, "A", <<"red">>, <<"">>)
        EXCEPT !.price = getUnitPriceForQty(product, fields.detail.n)]

\* the item the calculator's button adds: its own quantity and unit price,
\* no colour and no size
CalculatorItem ==
    [CartItem(NumberId(1), fields.calculator.n, "A", undefined, undefined)
        EXCEPT !.price = computePricing(product, fields.calculator.n).unitPrice]

\* handleAddToCart whatever the adding flag says
HandleAddToCart_noFlag ==
    LET out == addToCart(localStorage, DetailItem)
    IN /\ PageLive
       /\ canAddToCart
       /\ leftQty(out) <= MaxCartQty
       /\ localStorage' = out.storage
       /\ cartCall' = Outcome("addToCart", out)
       /\ page' = [page EXCEPT !.adding = ~out.threw, !.detailAdds = @ + 1]
       /\ exported' = NoExport
       /\ UNCHANGED <<fields, NotPage>>

\* handleAddToCart up to its await: nothing unless the product can be added
\* and no add is under way; the finally resets the flag at once if
\* addToCart throws
HandleAddToCart ==
    LET out == addToCart(localStorage, DetailItem)
    IN /\ PageLive
       /\ canAddToCart /\ ~page.adding
       /\ leftQty(out) <= MaxCartQty
       /\ localStorage' = out.storage
       /\ cartCall' = Outcome("addToCart", out)
       /\ page' = [page EXCEPT !.adding = ~out.threw, !.detailAdds = @ + 1]
       /\ exported' = NoExport
       /\ UNCHANGED <<fields, NotPage>>

\* handleAddToCart after the 350 ms: the finally
AddingDone ==
    /\ PageLive
    /\ page.adding
    /\ page' = [page EXCEPT !.adding = FALSE]
    /\ exported' = NoExport
    /\ UNCHANGED <<localStorage, cartCall, fields, NotPage>>

\* the calculator's "add to cart" button: addToCart, whatever the product
CalculatorAddToCart ==
    LET out == addToCart(localStorage, CalculatorItem)
    IN /\ PageLive
       /\ fields.calculator.kind = "int"
       /\ leftQty(out) <= MaxCartQty
       /\ localStorage' = out.storage
       /\ cartCall' = Outcome("addToCart", out)
       /\ exported' = NoExport
       /\ UNCHANGED <<page, fields, NotPage>>

PageNext ==
    \/ DetailMinus
    \/ DetailPlus
    \/ CalculatorBreakClick
    \/ HandleAddToCart
    \/ AddingDone
    \/ CalculatorAddToCart

\* the page of a product of any status and stock, the cart empty
PageInit ==
    /\ Idle("page")
    /\ product = QuoteProduct
    /\ call = NoCall
    /\ localStorage = MissingKey
    /\ addLog = <<>>
    /\ cartCall = NoCartCall
    /\ \E stock \in 0..MaxStock : fields = FieldsAtOne(stock)
    /\ quote = QuoteClosed
    /\ exported = NoExport
    /\ \E status \in Statuses : page = PageAtRest(status)

PageSpec == PageInit /\ [][PageNext]_vars

\* the page with its two delayed handlers; a timer of a live page fires
FlightNext ==
    \/ DetailPlus
    \/ HandleAddToCart
    \/ AddingDone
    \/ HandleOpenQuote
    \/ OpenQuoteFromDetail
    \/ OpenQuoteFromCalculator
    \/ OverlayClick
    \/ CloseButtonClick

FlightSpec ==
    /\ PageInit
    /\ [][FlightNext]_vars
    /\ WF_vars(AddingDone)
    /\ WF_vars(OpenQuoteFromDetail)

----------------------------------------------------------------------------
(* The catalog page: the category, supplier, search, sort and price-range
   settings, and the list of products it shows *)

MaxTypedPrice == 3  \* largest price typed into a bound of the price range

\* the characters of a text in lower case and in upper case
toLowerCase(c) ==
    IF \E i \in 1..26 : UpperCase[i] = c
    THEN LowerCase[CHOOSE i \in 1..26 : UpperCase[i] = c]
    ELSE c

lowerCased(text) == [i \in 1..Len(text) |-> toLowerCase(text[i])]

upperCased(text) == [i \in 1..Len(text) |-> toUpperCase(text[i])]

\* text.includes(part)
includes(text, part) ==
    \E i \in 0..(Len(text) - Len(part)) : SubSeq(text, i + 1, i + Len(part)) = part

\* the place of a character in the collation order: letters by the alphabet,
\* whatever their case, after everything else
collationRank(c) ==
    IF \E i \in 1..26 : LowerCase[i] = toLowerCase(c)
    THEN CHOOSE i \in 1..26 : LowerCase[i] = toLowerCase(c)
    ELSE 0

RECURSIVE localeCompare(_, _)
\* a.localeCompare(b): negative, zero or positive, by the first character
\* the two texts differ in
localeCompare(a, b) ==
    IF a = <<>> /\ b = <<>> THEN 0
    ELSE IF a = <<>> THEN -1
    ELSE IF b = <<>> THEN 1
    ELSE IF collationRank(Head(a)) # collationRank(Head(b))
         THEN collationRank(Head(a)) - collationRank(Head(b))
    ELSE localeCompare(Tail(a), Tail(b))

\* the bundled catalog (data/products): a product cheaper through a break, one
\* with no breaks, one whose break costs more than its base price, and one
\* without the priceBreaks field; not in order of name, price or stock
allProducts ==
    <<[id |-> 1, name |-> <<"p", "e", "n">>, sku |-> <<"P", "N", "2">>,
       category |-> "office", supplier |-> "acme", basePrice |-> 2, stock |-> 1,
       priceBreaks |-> [defined |-> TRUE, value |-> <<>>]],
      [id |-> 2, name |-> <<"M", "u", "g">>, sku |-> <<"M", "G", "1">>,
       category |-> "drink", supplier |-> "acme", basePrice |-> 3, stock |-> 2,
       priceBreaks |-> [defined |-> TRUE,
                        value |-> <<[minQty |-> 2, price |-> 2]>>]],
      [id |-> 3, name |-> <<"B", "a", "g">>, sku |-> <<"B", "G", "4">>,
       category |-> "drink", supplier |-> "bolt", basePrice |-> 3, stock |-> 0,
       priceBreaks |-> [defined |-> FALSE, value |-> <<>>]],
      [id |-> 4, name |-> <<"C", "a", "p">>, sku |-> <<"C", "P", "3">>,
       category |-> "office", supplier |-> "bolt", basePrice |-> 1, stock |-> 2,
       priceBreaks |-> [defined |-> TRUE,
                        value |-> <<[minQty |-> 2, price |-> 3]>>]]>>

\* the ids of the category buttons, of the supplier items and of the options
\* of the sort select
CategoryIds == {"all"} \cup {allProducts[i].category : i \in 1..Len(allProducts)}

SupplierIds == {allProducts[i].supplier : i \in 1..Len(allProducts)}

SortOptions == {"name", "+price", "-price", "stock"}

\* the label the sort select shows for each option
SortLabels ==
    [option \in SortOptions |->
        CASE option = "name" -> "Nombre A-Z"
          [] option = "+price" -> "Precio (ascendente)"
          [] option = "-price" -> "Precio (descendente)"
          [] option = "stock" -> "Stock disponible"]

\* what is typed into the search box: nothing, part of a name in the other
\* case, part of a SKU in lower case
SearchTexts == {<<>>, <<"A">>, <<"n", "2">>}

\* what is typed into a bound of the price range
PriceTexts ==
    {<<>>, <<" ">>, <<"-", "1">>} \cup {<<ToString(n)>> : n \in 0..MaxTypedPrice}

RECURSIVE lowestPrice(_, _)
\* for (const b of breaks) if (b.price < m) m = b.price
lowestPrice(breaks, m) ==
    IF breaks = <<>> THEN m
    ELSE lowestPrice(Tail(breaks), IF Head(breaks).price < m THEN Head(breaks).price ELSE m)

productMinUnitPrice(p) ==
    IF p.priceBreaks.defined /\ Len(p.priceBreaks.value) # 0
    THEN lowestPrice(p.priceBreaks.value, p.basePrice)
    ELSE p.basePrice

\* the comparator filterProducts sorts with under a sort argument; an
\* argument that is no option sorts nothing
compare(sort, a, b) ==
    CASE sort = "name" -> localeCompare(a.name, b.name)
      [] sort = "+price" -> productMinUnitPrice(b) - productMinUnitPrice(a)
      [] sort = "-price" -> productMinUnitPrice(a) - productMinUnitPrice(b)
      [] sort = "stock" -> b.stock - a.stock
      [] OTHER -> 0

RECURSIVE insert(_, _, _)
\* x put into a sorted list, after everything that does not come after it
insert(list, x, sort) ==
    IF list = <<>> THEN <<x>>
    ELSE IF compare(sort, list[Len(list)], x) <= 0 THEN Append(list, x)
    ELSE Append(insert(SubSeq(list, 1, Len(list) - 1), x, sort), list[Len(list)])

RECURSIVE sorted(_, _)
\* list.sort(comparator), which is stable
sorted(list, sort) ==
    IF list = <<>> THEN <<>>
    ELSE insert(sorted(SubSeq(list, 1, Len(list) - 1), sort), list[Len(list)], sort)

\* the price range with its bounds left out of it
withinRange_exclusive(unitPrice, minPrice, maxPrice) ==
    /\ minPrice.kind = "null" \/ unitPrice > minPrice.n
    /\ maxPrice.kind = "null" \/ unitPrice < maxPrice.n

\* minPrice === null || unitPrice >= minPrice, and the same for maxPrice
withinRange(unitPrice, minPrice, maxPrice) ==
    /\ minPrice.kind = "null" \/ unitPrice >= minPrice.n
    /\ maxPrice.kind = "null" \/ unitPrice <= maxPrice.n

\* the list filterProducts hands to setFilteredProducts; selectedSupplier is
\* the state of the render the calling handler belongs to
filterProducts(selectedSupplier, category, search, sort, minPrice, maxPrice) ==
    LET inCategory(p) == category = "all" \/ p.category = category
        ofSupplier(p) == selectedSupplier = NoSupplier \/ p.supplier = selectedSupplier
        found(p) ==
            \/ search = <<>>
            \/ includes(lowerCased(p.name), lowerCased(search))
            \/ includes(p.sku, upperCased(search))
        inRange(p) ==
            \/ minPrice.kind = "null" /\ maxPrice.kind = "null"
            \/ withinRange(productMinUnitPrice(p), minPrice, maxPrice)
        byCategory == SelectSeq(allProducts, inCategory)
        bySupplier == SelectSeq(byCategory, ofSupplier)
        bySearch == SelectSeq(bySupplier, found)
        byPrice == SelectSeq(bySearch, inRange)
    IN sorted(byPrice, sort)

\* value.trim() of what is typed into a bound
trim(text) ==
    LET notSpace(c) == c # " " IN SelectSeq(text, notSpace)

\* v === "" ? null : Math.max(0, Number.parseInt(v, 10) || 0)
boundOf(text) ==
    LET v == trim(text)
        parsed == parseInt(v)
        orZero == IF parsed.kind = "NaN" THEN Num(0) ELSE parsed
    IN IF v = <<>> THEN Null ELSE mathMax(Num(0), orZero)

\* the page after a handler: the settings it set and the list it computed
Shown(event, filters, list) ==
    [event |-> event, filters |-> filters, filteredProducts |-> list]

HandleCategoryChange ==
    \E category \in CategoryIds :
        LET f == catalog.filters
        IN /\ catalog' = Shown("change", [f EXCEPT !.selectedCategory = category],
                               filterProducts(f.selectedSupplier, category,
                                              f.searchQuery, f.sortBy, f.min, f.max))
           /\ UNCHANGED NotCatalog

\* typing into the search box, and its clear button, which hands over ""
HandleSearchChange ==
    \E search \in SearchTexts :
        LET f == catalog.filters
        IN /\ catalog' = Shown("change", [f EXCEPT !.searchQuery = search],
                               filterProducts(f.selectedSupplier, f.selectedCategory,
                                              search, f.sortBy, f.min, f.max))
           /\ UNCHANGED NotCatalog

HandleSortChange ==
    \E sort \in SortOptions :
        LET f == catalog.filters
        IN /\ catalog' = Shown("change", [f EXCEPT !.sortBy = sort],
                               filterProducts(f.selectedSupplier, f.selectedCategory,
                                              f.searchQuery, sort, f.min, f.max))
           /\ UNCHANGED NotCatalog

\* a click on a supplier: setSelectedSupplier(supplier), then filterProducts
\* with the supplier where the sort option goes, in a render whose
\* selectedSupplier is still the one before the click
HandleSupplierChange ==
    \E supplier \in SupplierIds :
        LET f == catalog.filters
        IN /\ catalog' = Shown("supplier", [f EXCEPT !.selectedSupplier = supplier],
                               filterProducts(f.selectedSupplier, f.selectedCategory,
                                              f.searchQuery, supplier, f.min, f.max))
           /\ UNCHANGED NotCatalog

\* typing into the lower bound: handleMinChange, then handlePriceRangeChange
HandleMinChange ==
    \E text \in PriceTexts :
        LET f == catalog.filters
            minVal == boundOf(text)
        IN /\ catalog' = Shown("change", [f EXCEPT !.min = minVal],
                               filterProducts(f.selectedSupplier, f.selectedCategory,
                                              f.searchQuery, f.sortBy, minVal, f.max))
           /\ UNCHANGED NotCatalog

\* typing into the upper bound: handleMaxChange, then handlePriceRangeChange
HandleMaxChange ==
    \E text \in PriceTexts :
        LET f == catalog.filters
            maxVal == boundOf(text)
        IN /\ catalog' = Shown("change", [f EXCEPT !.max = maxVal],
                               filterProducts(f.selectedSupplier, f.selectedCategory,
                                              f.searchQuery, f.sortBy, f.min, maxVal))
           /\ UNCHANGED NotCatalog

\* the "clear all filters" button: every setter but setSelectedSupplier, then
\* filterProducts("all", "", "name", null, null)
HandleClearFilters ==
    LET f == catalog.filters
    IN /\ catalog' = Shown("clear",
                           [DefaultFilters EXCEPT !.selectedSupplier = f.selectedSupplier],
                           filterProducts(f.selectedSupplier, "all", <<>>, "name",
                                          Null, Null))
       /\ UNCHANGED NotCatalog

\* the button of the empty state, shown when the list is empty:
\* handleClearFilters()
ShowAllProducts ==
    LET f == catalog.filters
    IN /\ Len(catalog.filteredProducts) = 0
       /\ catalog' = Shown("showAll",
                           [DefaultFilters EXCEPT !.selectedSupplier = f.selectedSupplier],
                           filterProducts(f.selectedSupplier, "all", <<>>, "name",
                                          Null, Null))
       /\ UNCHANGED NotCatalog

CatalogNext ==
    \/ HandleCategoryChange
    \/ HandleSearchChange
    \/ HandleSortChange
    \/ HandleSupplierChange
    \/ HandleMinChange
    \/ HandleMaxChange
    \/ HandleClearFilters
    \/ ShowAllProducts

\* the page as it mounts: useState(allProducts) and the default settings
CatalogInit ==
    /\ Idle("catalog")
    /\ catalog = Shown("mount", DefaultFilters, allProducts)

CatalogSpec == CatalogInit /\ [][CatalogNext]_vars

----------------------------------------------------------------------------
(* Properties of the pricing engine, stated over the product's own list *)

\* the indices of the breaks of p a quantity q reaches
Eligible(p, q) ==
    {i \in 1..Len(breaksOrEmpty(p)) : breaksOrEmpty(p)[i].minQty <= q}

EligiblePrices(p, q) == {breaksOrEmpty(p)[i].price : i \in Eligible(p, q)}

MinOf(S) == CHOOSE m \in S : \A x \in S : m <= x

\* how many times x occurs in s
Count(s, x) == Cardinality({i \in 1..Len(s) : s[i] = x})

IsPermutation(s, t) ==
    /\ Len(s) = Len(t)
    /\ \A x \in Range(s) \cup Range(t) : Count(s, x) = Count(t, x)

RECURSIVE Gcd(_, _)
Gcd(a, b) == IF b = 0 THEN a ELSE Gcd(b, a % b)

Abs(a) == IF a < 0 THEN 0 - a ELSE a

\* two fractions of positive denominator have the same value (compared in
\* lowest terms: the cross products of the example's amounts exceed 32 bits)
SameValue(f, g) ==
    /\ f.den > 0
    /\ g.den > 0
    /\ f.num \div Gcd(Abs(f.num), f.den) = g.num \div Gcd(Abs(g.num), g.den)
    /\ f.den \div Gcd(Abs(f.num), f.den) = g.den \div Gcd(Abs(g.num), g.den)

\* the value of fraction f is the integer n
FracIs(f, n) == f.den > 0 /\ f.num = n * f.den

\* C1: getBestBreakForQty returns none when no break has minQty <= q (or there
\* are no breaks); otherwise a break of the product with minQty <= q whose price
\* is the lowest among the eligible breaks and whose minQty is the largest among
\* the eligible breaks of that price.
C1_BestBreak ==
    call.op = "getBestBreakForQty" =>
        LET bs == breaksOrEmpty(product)
            E == Eligible(product, call.qty)
        IN IF E = {} THEN call.ret = null
           ELSE /\ call.ret # null
                /\ \E i \in E : bs[i] = call.ret[1]
                /\ \A j \in E :
                      /\ call.ret[1].price <= bs[j].price
                      /\ bs[j].price = call.ret[1].price
                            => bs[j].minQty <= call.ret[1].minQty

\* two eligible breaks share the lowest price and differ in minQty
C1_Witness ==
    /\ call.op = "getBestBreakForQty"
    /\ call.ret # null
    /\ \E i, j \in Eligible(product, call.qty) :
          /\ breaksOrEmpty(product)[i].price = call.ret[1].price
          /\ breaksOrEmpty(product)[j].price = call.ret[1].price
          /\ breaksOrEmpty(product)[i].minQty < breaksOrEmpty(product)[j].minQty

\* C2: for q >= 1, getUnitPriceForQty is min(bestBreak.price, basePrice) when a
\* break is eligible and basePrice otherwise; so it never exceeds basePrice, is
\* below basePrice exactly when an eligible break is priced below basePrice, and
\* is basePrice in every other case.
C2_UnitPrice ==
    (call.op = "getUnitPriceForQty" /\ call.qty >= 1) =>
        LET base == product.basePrice
            prices == EligiblePrices(product, call.qty)
            best == getBestBreakForQty(product, call.qty)
        IN /\ call.ret = (IF prices # {} THEN Min2(best[1].price, base) ELSE base)
           /\ call.ret = MinOf(prices \cup {base})
           /\ call.ret <= base
           /\ call.ret < base <=> (\E x \in prices : x < base)
           /\ ~(\E x \in prices : x < base) => call.ret = base

\* the best eligible break is priced above basePrice, and the guard caps it
C2_Witness ==
    /\ call.op = "getUnitPriceForQty"
    /\ call.qty >= 1
    /\ EligiblePrices(product, call.qty) # {}
    /\ \A x \in EligiblePrices(product, call.qty) : x > product.basePrice
    /\ call.ret = product.basePrice

\* C3: the unit price does not increase with quantity: of two calls of
\* getUnitPriceForQty on a product, the one with the larger quantity returns
\* no more than the other.
C3_Monotone ==
    [][(/\ call.op = "getUnitPriceForQty"
        /\ call'.op = "getUnitPriceForQty"
        /\ product' = product
        /\ call.qty <= call'.qty) => call'.ret <= call.ret]_vars

\* a call whose unit price is below that of the next smaller quantity, on a
\* product whose list is not in ascending price order
C3_Witness ==
    /\ call.op = "getUnitPriceForQty"
    /\ call.qty - 1 \in QtysFor(product)
    /\ call.ret < getUnitPriceForQty(product, call.qty - 1)
    /\ \E i, j \in 1..Len(breaksOrEmpty(product)) :
          /\ breaksOrEmpty(product)[i].minQty < breaksOrEmpty(product)[j].minQty
          /\ breaksOrEmpty(product)[i].price < breaksOrEmpty(product)[j].price

\* C4: computePricing's unitPrice is getUnitPriceForQty and its netSubtotal is
\* that unit price times the quantity, exactly.
C4_NetSubtotal ==
    call.op = "computePricing" =>
        /\ call.ret.unitPrice = getUnitPriceForQty(product, call.qty)
        /\ call.ret.netSubtotal = getUnitPriceForQty(product, call.qty) * call.qty
        /\ call.ret.netSubtotal = MinOf(EligiblePrices(product, call.qty)
                                        \cup {product.basePrice}) * call.qty

\* a subtotal of several units at a discounted unit price
C4_Witness ==
    /\ call.op = "computePricing"
    /\ call.qty >= 2
    /\ call.ret.unitPrice < product.basePrice
    /\ call.ret.netSubtotal = call.ret.unitPrice * call.qty

\* C5: when basePrice * qty > 0, getDiscountPercent is
\* (basePrice*qty - unitPrice*qty) / (basePrice*qty) * 100; on the example
\* product: unit price 1000 and 0% at qty 5, 900 and 10% at 10, 800 and 20% at 60.
C5_DiscountPercent ==
    /\ (call.op = "getDiscountPercent" /\ product.basePrice * call.qty > 0) =>
          LET base == product.basePrice * call.qty
              unit == MinOf(EligiblePrices(product, call.qty) \cup {product.basePrice})
          IN SameValue(call.ret, [num |-> (base - unit * call.qty) * 100, den |-> base])
    /\ (call.op = "getDiscountPercent" /\ product = ExampleProduct) =>
          /\ call.qty = 5 => FracIs(call.ret, 0)
          /\ call.qty = 10 => FracIs(call.ret, 10)
          /\ call.qty = 60 => FracIs(call.ret, 20)
    /\ (call.op = "computePricing" /\ product = ExampleProduct) =>
          /\ call.qty = 5 =>
                call.ret.unitPrice = 1000 /\ FracIs(call.ret.discountPercent, 0)
          /\ call.qty = 10 =>
                call.ret.unitPrice = 900 /\ FracIs(call.ret.discountPercent, 10)
          /\ call.qty = 60 =>
                call.ret.unitPrice = 800 /\ FracIs(call.ret.discountPercent, 20)

\* the example at qty 60: 20%
C5_Witness ==
    /\ call.op = "getDiscountPercent"
    /\ product = ExampleProduct
    /\ call.qty = 60
    /\ FracIs(call.ret, 20)

\* the case of C6: q >= 1, basePrice > 0, the best eligible break priced above it
C6_Case ==
    /\ call.op = "getDiscountPercent"
    /\ call.qty >= 1
    /\ product.basePrice > 0
    /\ getBestBreakForQty(product, call.qty) # null
    /\ getBestBreakForQty(product, call.qty)[1].price > product.basePrice

\* C6 as claimed: in that case getDiscountPercent is negative.
C6_Original == C6_Case => call.ret.num < 0

\* C6 as amended: getDiscountPercent has no clamp of its own, but the unit price
\* it reads is capped at basePrice, so in that case it is exactly 0; and it is
\* never negative for basePrice > 0 and q >= 1.
C6_NeverNegative ==
    /\ C6_Case => FracIs(call.ret, 0)
    /\ (call.op = "getDiscountPercent" /\ call.qty >= 1 /\ product.basePrice > 0)
          => (call.ret.den > 0 /\ call.ret.num >= 0)

C6_Witness == C6_Case /\ call.ret.num = 0 /\ call.ret.den = product.basePrice * call.qty

\* C7: the discount is exactly 0 whenever basePrice * qty <= 0 (basePrice 0,
\* quantity 0, ...), whatever the breaks; also as computePricing's field.
C7_ZeroDiscount ==
    product.basePrice * call.qty <= 0 =>
        /\ call.op = "getDiscountPercent" => call.ret = Zero
        /\ call.op = "computePricing" => call.ret.discountPercent = Zero

\* basePrice 0 with a break the quantity reaches
C7_Witness ==
    /\ call.op = "computePricing"
    /\ product.basePrice = 0
    /\ call.qty >= 1
    /\ Eligible(product, call.qty) # {}
    /\ call.ret.discountPercent = Zero

\* C8: sortBreaks returns a permutation of the product's breaks in
\* non-decreasing minQty order, the empty sequence when priceBreaks is absent or
\* empty, and leaves the product's priceBreaks as it was.
C8_SortBreaks ==
    /\ [](call.op = "sortBreaks" =>
            /\ IsPermutation(call.ret, breaksOrEmpty(product))
            /\ \A i, j \in 1..Len(call.ret) :
                  i < j => call.ret[i].minQty <= call.ret[j].minQty
            /\ (~product.priceBreaks.defined \/ product.priceBreaks.value = <<>>)
                  => call.ret = <<>>)
    /\ [][call'.op = "sortBreaks" => product' = product]_vars

\* the product's list is out of order, and the returned one is not
C8_Witness ==
    /\ call.op = "sortBreaks"
    /\ \E i \in 1..(Len(breaksOrEmpty(product)) - 1) :
          breaksOrEmpty(product)[i].minQty > breaksOrEmpty(product)[i + 1].minQty
    /\ call.ret # breaksOrEmpty(product)

\* C9: the engine clamps nothing: for qty <= 0 and breaks of positive minQty,
\* computePricing returns unitPrice = basePrice, netSubtotal = basePrice * qty
\* and discountPercent = 0; and whenever no break is eligible the unit price is
\* basePrice.
C9_NoClamping ==
    /\ (/\ call.op = "computePricing"
        /\ call.qty <= 0
        /\ \A b \in Range(breaksOrEmpty(product)) : b.minQty > 0) =>
          /\ call.ret.unitPrice = product.basePrice
          /\ call.ret.netSubtotal = product.basePrice * call.qty
          /\ call.ret.discountPercent = Zero
    /\ Eligible(product, call.qty) = {} =>
          /\ call.op = "getBestBreakForQty" => call.ret = null
          /\ call.op = "getUnitPriceForQty" => call.ret = product.basePrice
          /\ call.op = "computePricing" => call.ret.unitPrice = product.basePrice

\* a negative quantity on a product with breaks: a negative subtotal
C9_Witness ==
    /\ call.op = "computePricing"
    /\ call.qty < 0
    /\ product.basePrice > 0
    /\ breaksOrEmpty(product) # <<>>
    /\ \A b \in Range(breaksOrEmpty(product)) : b.minQty > 0
    /\ call.ret.netSubtotal < 0

----------------------------------------------------------------------------
(* Properties of the cart *)

\* the key of a line or of an added item: the id as a string, sku, color, size
KeyOf(it) == <<String(it.id), it.sku, Field(it, "color"), Field(it, "size")>>

\* the adds logged so far with the key of line `it`
AddsOf(it) == SelectSeq(addLog, LAMBDA e : KeyOf(e) = KeyOf(it))

RECURSIVE SumQty(_)
SumQty(adds) == IF adds = <<>> THEN 0 ELSE Head(adds).qty + SumQty(Tail(adds))

\* every key has at most one line, and every added key has one
OneLinePerKey ==
    LET items == getCartItems(localStorage)
    IN /\ \A i, j \in 1..Len(items) : KeyOf(items[i]) = KeyOf(items[j]) => i = j
       /\ \A n \in 1..Len(addLog) :
             \E i \in 1..Len(items) : KeyOf(items[i]) = KeyOf(addLog[n])

----------------------------------------------------------------------------
(* Properties of the cart API *)

ReadOps == {"getCart", "getCartItems", "getCartTotal", "getCartItemCount"}

Mutations == {"addToCart", "setQty", "removeFromCart", "clearCart"}

\* what a getter returns: a value, not undefined
Returned(value) == [defined |-> TRUE, value |-> value]

\* the results of the read-only operations on a cart with nothing in it
ReadsEmptyCart ==
    /\ cartCall.op = "getCart" =>
          cartCall.ret = [cart |-> [items |-> <<>>, totalQty |-> 0, totalPrice |-> 0],
                          loading |-> FALSE]
    /\ cartCall.op = "getCartItems" => cartCall.ret = Returned(<<>>)
    /\ cartCall.op = "getCartTotal" => cartCall.ret = Returned(0)
    /\ cartCall.op = "getCartItemCount" => cartCall.ret = Returned(0)

\* C11: while the storage key is missing, empty, not valid JSON, or JSON with
\* no cart field, getCart returns the empty cart (no items, totals 0, loading
\* false), getCartItems returns the empty list and getCartTotal and
\* getCartItemCount return 0, and none of them throws.
C11_EmptyCartFallback ==
    localStorage \in NoCartStorages => ~cartCall.threw /\ ReadsEmptyCart

C11_Witness ==
    /\ localStorage = Stored(NotJSON)
    /\ cartCall.op = "getCartTotal"
    /\ cartCall.ret = Returned(0)
    /\ ~cartCall.threw

\* C12 as claimed: on any malformed storage content, a cart whose record lacks
\* the items list or the totals included, every cart operation completes
\* without throwing and the read-only ones return what they return on an
\* empty cart.
C12_Original ==
    localStorage \in NoCartStorages \cup BrokenCartStorages =>
        ~cartCall.threw /\ ReadsEmptyCart

RECURSIVE SumPrice(_)
SumPrice(lines) ==
    IF lines = <<>> THEN 0
    ELSE Head(lines).price * Head(lines).qty + SumPrice(Tail(lines))

\* C13: after any sequence of addToCart, setQty, removeFromCart and clearCart
\* calls the stored record's totalQty is the sum of its lines' qty and its
\* totalPrice the sum of price * qty over its lines, and getCartItemCount and
\* getCartTotal return exactly these two values.
C13_TotalsAgree ==
    localStorage.present =>
        LET cart == localStorage.data.cart
        IN /\ cart.totalQty = SumQty(cart.items)
           /\ cart.totalPrice = SumPrice(cart.items)
           /\ cartCall.op = "getCartItemCount" =>
                 cartCall.ret = Returned(SumQty(cart.items))
           /\ cartCall.op = "getCartTotal" =>
                 cartCall.ret = Returned(SumPrice(cart.items))

C13_Witness ==
    /\ localStorage.present
    /\ Len(localStorage.data.cart.items) = 2
    /\ localStorage.data.cart.items[1].qty = 2
    /\ cartCall.op = "getCartTotal"
    /\ cartCall.ret = Returned(450)

\* C14: every call of addToCart, setQty, removeFromCart and clearCart
\* dispatches cart:updated exactly once, with the whole new record already in
\* storage, so a listener reading the cart at the dispatch reads the state the
\* call returns; getCart, getCartItems, getCartTotal and getCartItemCount
\* dispatch nothing and leave the storage as it was.
C14_NotifyAfterWrite ==
    [][/\ cartCall'.op \in Mutations =>
            /\ cartCall'.notified = <<localStorage'>>
            /\ cartCall'.notified[1] =
                  [present |-> TRUE, data |-> stringify(cartCall'.ret)]
       /\ cartCall'.op \in ReadOps =>
            /\ cartCall'.notified = <<>>
            /\ localStorage' = localStorage]_vars

C14_Witness ==
    /\ cartCall.op = "setQty"
    /\ cartCall.notified = <<localStorage>>
    /\ Len(cartCall.ret.cart.items) = 2
    /\ cartCall.ret.cart.totalQty = 3


----------------------------------------------------------------------------
(* Properties of two tabs racing on the storage entry *)

\* the lines of a stored record
LinesOf(storage) == IF storage.present THEN storage.data.cart.items ELSE <<>>

\* C15: under any interleaving of the read and write steps of the two tabs'
\* cart calls, the stored record is exactly the whole state the last writer
\* computed from the entry it had read (never lines of two writers merged),
\* so its totals agree with its items; nothing detects a conflict, so a write
\* made between that read and that write leaves no trace in the record.
C15_LastWriterWins ==
    /\ lastWrite.tab # 0 =>
          /\ localStorage = Apply(lastWrite.call, lastWrite.read)
          /\ localStorage.data.cart.totalQty = SumQty(LinesOf(localStorage))
          /\ localStorage.data.cart.totalPrice = SumPrice(LinesOf(localStorage))
    /\ lastWrite.tab = 0 => localStorage = MissingKey

\* both tabs read the missing entry, tab 1 wrote item A, then tab 2 wrote
\* item B: the record holds B alone
C15_Witness ==
    /\ lastWrite.tab = 2
    /\ lastWrite.read = MissingKey
    /\ lastWrite.call = [op |-> "addToCart", item |-> TabItemB]
    /\ LinesOf(lastWrite.replaced) = <<stringifyObject(TabItemA)>>
    /\ LinesOf(localStorage) = <<stringifyObject(TabItemB)>>


----------------------------------------------------------------------------
(* Properties of the quantity fields *)

AtLeastOne(x) == x.kind = "int" /\ x.n >= 1

\* C16 as claimed: in the detail quantity, the calculator quantity and the
\* cart line's quantity, after any sequence of typed inputs, plus and minus
\* clicks and price-break clicks, for any product, one with stock 0 included,
\* the quantity is a number >= 1.
C16_Original ==
    /\ AtLeastOne(fields.detail)
    /\ AtLeastOne(fields.calculator)
    /\ AtLeastOne(fields.line)


----------------------------------------------------------------------------
(* Properties of the RUT helpers and the company form *)

AllDigits(text) == \A i \in 1..Len(text) : text[i] \in Digits

\* the weight of the i-th digit counted from the right: 2, 3, 4, 5, 6, 7, 2, ...
Weight(i) == 2 + ((i - 1) % 6)

RECURSIVE WeightedSum(_, _)
\* the weighted sum of the digits of body, the rightmost being the i-th
WeightedSum(body, i) ==
    IF body = <<>> THEN 0
    ELSE digitValue(body[Len(body)]) * Weight(i)
         + WeightedSum(SubSeq(body, 1, Len(body) - 1), i + 1)

\* the standard modulo-11 check digit of a digit body
StandardDV(body) ==
    LET r == 11 - (WeightedSum(body, 1) % 11)
    IN IF r = 11 THEN <<"0">> ELSE IF r = 10 THEN <<"K">> ELSE <<ToString(r)>>

\* the text without its dots and hyphens, k written K
Cleaned(text) ==
    LET noSeparator(c) == c # "." /\ c # "-"
        kept == SelectSeq(text, noSeparator)
    IN [i \in 1..Len(kept) |-> IF kept[i] = "k" THEN "K" ELSE kept[i]]

\* C18: validateRut accepts a text exactly when, dots and hyphens removed and
\* upper-cased, it is 1 to 8 digits followed by one character in 0-9 or K that
\* equals the standard modulo-11 check digit of the digits before it; calcDV
\* returns that check digit for every digit body.
C18_ValidateRut ==
    LET c == Cleaned(form.rut)
        body == SubSeq(c, 1, Len(c) - 1)
    IN /\ validateRut(form.rut) <=>
            /\ Len(c) >= 2
            /\ Len(body) <= 8
            /\ AllDigits(body)
            /\ c[Len(c)] \in Digits \cup {"K"}
            /\ <<c[Len(c)]>> = StandardDV(body)
       /\ AllDigits(c) => calcDV(c) = StandardDV(c)

\* the RUT 6-k typed: accepted, its check digit being K
C18_Witness ==
    /\ form.rut = <<"6", "-", "k">>
    /\ validateRut(form.rut)
    /\ calcDV(<<"6">>) = <<"K">>


\* C17: the print button is disabled exactly when the RUT field is not empty
\* and its text fails validateRut, so printing happens only with the field
\* empty or valid; whatever the RUT, no input of the form and not the export
\* button is disabled.
C17_PrintDisabled ==
    /\ Rendered.printDisabled <=> (form.rut # <<>> /\ ~validateRut(form.rut))
    /\ form.printed => (form.rut = <<>> \/ validateRut(form.rut))
    /\ ~Rendered.inputsDisabled
    /\ ~Rendered.exportDisabled

\* exported with an invalid RUT in the field, which the document carries
C17_Witness ==
    /\ form.rut = <<"1", "-", "1">>
    /\ Rendered.printDisabled
    /\ exported.downloaded
    /\ exported.payload.company.rut = <<"1", "-", "1">>

----------------------------------------------------------------------------
(* Properties of the quote modal *)

\* a * b, NaN when either is NaN
Product(a, b) ==
    IF a.kind = "NaN" \/ b.kind = "NaN" THEN NaN ELSE Num(a.n * b.n)

\* pct percent of x rounded to the nearest integer, NaN when x is
RoundedPercent(x, pct) ==
    IF x.kind = "NaN" THEN NaN ELSE Num((pct * x.n + 50) \div 100)

\* C19 as claimed: in every exported document the item's qty is the quoted
\* quantity and its lineNetCLP is unitPriceCLP * qty, and the totals have
\* ivaRate 19, netCLP the rounded lineNetCLP, ivaCLP the rounded 19% of the
\* net subtotal and totalCLP the rounded net subtotal plus 19%.
C19_Original ==
    exported.downloaded =>
        LET item == exported.payload.items[1]
            totals == exported.payload.totals
        IN /\ Len(exported.payload.items) = 1
           /\ item.qty = fields.detail
           /\ item.lineNetCLP = Product(item.unitPriceCLP, item.qty)
           /\ totals.ivaRate = 19
           /\ totals.netCLP = RoundedPercent(item.lineNetCLP, 100)
           /\ totals.ivaCLP = RoundedPercent(item.lineNetCLP, 19)
           /\ totals.totalCLP = RoundedPercent(item.lineNetCLP, 119)

\* C20 as claimed: with the modal open, a click on the overlay or on the X of
\* the header calls the parent's onClose, and the parent's isOpen is false
\* afterwards.
C20_Original ==
    [][(quote.isOpen /\ (OverlayClick \/ CloseButtonClick)) => ~quote'.isOpen]_vars

----------------------------------------------------------------------------
(* Properties of the catalog page *)

\* p passes the category, search and price-range settings f
PassesFilters(p, f) ==
    /\ f.selectedCategory = "all" \/ p.category = f.selectedCategory
    /\ \/ includes(lowerCased(p.name), lowerCased(f.searchQuery))
       \/ includes(p.sku, upperCased(f.searchQuery))
    /\ f.min.kind = "null" \/ productMinUnitPrice(p) >= f.min.n
    /\ f.max.kind = "null" \/ productMinUnitPrice(p) <= f.max.n

\* list holds each product of the set once and nothing else
ListsExactly(list, set) ==
    /\ Range(list) = set
    /\ Len(list) = Cardinality(set)

\* list is in the order of the sort option
OrderedBy(list, sort) ==
    \A i, j \in 1..Len(list) : i < j => compare(sort, list[i], list[j]) <= 0

\* C21: right after a supplier is selected, the list shows exactly the
\* products of that supplier that pass the category, search and price-range
\* settings, in the order of the selected sort option.
C21_Original ==
    catalog.event = "supplier" =>
        /\ ListsExactly(catalog.filteredProducts,
                        {p \in Range(allProducts) :
                            /\ p.supplier = catalog.filters.selectedSupplier
                            /\ PassesFilters(p, catalog.filters)})
        /\ OrderedBy(catalog.filteredProducts, catalog.filters.sortBy)

\* C22: after "clear all filters", and after the "show all products" button
\* of the empty state, every setting is at its default and the list is the
\* whole catalog in order of name.
C22_Original ==
    catalog.event \in {"clear", "showAll"} =>
        /\ catalog.filters = DefaultFilters
        /\ ListsExactly(catalog.filteredProducts, Range(allProducts))
        /\ OrderedBy(catalog.filteredProducts, "name")

\* list is in non-decreasing, or in non-increasing, order of minimal unit price
NonDecreasingPrice(list) ==
    \A i, j \in 1..Len(list) :
        i < j => productMinUnitPrice(list[i]) <= productMinUnitPrice(list[j])

NonIncreasingPrice(list) ==
    \A i, j \in 1..Len(list) :
        i < j => productMinUnitPrice(list[i]) >= productMinUnitPrice(list[j])

\* C23: choosing the sort option labelled "Precio (ascendente)" puts the list
\* in non-decreasing order of minimal unit price, and choosing the one
\* labelled "Precio (descendente)" puts it in non-increasing order.
C23_Original ==
    [][catalog'.filters.sortBy # catalog.filters.sortBy =>
          LET label == SortLabels[catalog'.filters.sortBy]
          IN /\ label = "Precio (ascendente)" =>
                   NonDecreasingPrice(catalog'.filteredProducts)
             /\ label = "Precio (descendente)" =>
                   NonIncreasingPrice(catalog'.filteredProducts)]_vars

\* C24: with no supplier ever selected, after a change of category, search,
\* sort or price range the list holds exactly the products of the catalog
\* that pass the current category, search and price-range settings, in the
\* order of the current sort option.
C24_ListFollowsSettings ==
    (catalog.event = "change" /\ catalog.filters.selectedSupplier = NoSupplier) =>
        /\ ListsExactly(catalog.filteredProducts,
                        {p \in Range(allProducts) : PassesFilters(p, catalog.filters)})
        /\ OrderedBy(catalog.filteredProducts, catalog.filters.sortBy)

\* a search in the other case, a lower bound some product sits on and a sort
\* by price, showing two products in another order than the catalog's
C24_Witness ==
    /\ catalog.event = "change"
    /\ catalog.filters.selectedSupplier = NoSupplier
    /\ catalog.filters.searchQuery = <<"A">>
    /\ catalog.filters.min = Num(1)
    /\ catalog.filters.max = Num(3)
    /\ catalog.filters.sortBy = "-price"
    /\ Len(catalog.filteredProducts) = 2
    /\ catalog.filteredProducts[1].id > catalog.filteredProducts[2].id

----------------------------------------------------------------------------
(* Properties of the badge and the cart panel *)

\* the cart the storage entry holds, an empty one when there is no entry
StoredCart ==
    IF localStorage.present THEN localStorage.data.cart
    ELSE [items |-> <<>>, totalQty |-> 0, totalPrice |-> 0]

\* the badge and the panel of tab t show what the storage entry holds
InStep(t) ==
    /\ views[t].count = Returned(StoredCart.totalQty)
    /\ views[t].items = Returned(StoredCart.items)
    /\ views[t].total = Returned(StoredCart.totalPrice)

\* C25: once mounted, a tab's badge and panel show the stored totalQty, items
\* and total right after a cart call of the tab itself, and whenever every
\* storage event sent to the tab has been delivered.
C25_ViewsInStep ==
    \A t \in Tabs :
        /\ lastWrite.tab = t => InStep(t)
        /\ (views[t].mounted /\ views[t].pending = 0) => InStep(t)

\* a tab whose badge showed the cart before another tab's write, and shows
\* the two units of that write now that its storage event has arrived
C25_Witness ==
    \E t, u \in Tabs :
        /\ t # u
        /\ views[t].mounted /\ views[u].mounted
        /\ views[t].pending = 0
        /\ lastWrite = NoWrite
        /\ views[t].count = Returned(2)
        /\ Len(views[t].items.value) = 1
        /\ views[u].count = Returned(2)

----------------------------------------------------------------------------
(* Properties of the detail page's add-to-cart and quote buttons *)

\* C26: on the detail page, pricing calculator included, addToCart is called
\* only for a product that is active and in stock; for any other product
\* nothing the user does there puts a line in the cart.
C26_Original ==
    /\ cartCall.op = "addToCart" => (page.status = "active" /\ fields.stock > 0)
    /\ ~(page.status = "active" /\ fields.stock > 0) =>
          (localStorage.present => localStorage.data.cart.items = <<>>)

----------------------------------------------------------------------------
(* Properties of the open quote modal *)

\* C27: whenever the quote modal is open, however it was opened and whatever
\* was done since, the unit price and the net subtotal it shows are those of
\* computePricing for the quantity it shows, so the net subtotal is the unit
\* price times the quantity.
C27_Original ==
    quote.isOpen =>
        /\ modalUnitPrice = computePricingOf(product, modalQuantity).unitPrice
        /\ modalNetSubtotal = computePricingOf(product, modalQuantity).netSubtotal
        /\ modalNetSubtotal = Product(modalUnitPrice, modalQuantity)

----------------------------------------------------------------------------
(* Properties of the lines of the cart *)

\* the lines a setQty or removeFromCart with this id and these options targets
Targets(items, id, options) ==
    {i \in 1..Len(items) :
        /\ String(items[i].id) = String(id)
        /\ options.given =>
              /\ items[i].sku = options.sku
              /\ Field(items[i], "color") = options.color
              /\ Field(items[i], "size") = options.size}

\* new is old after addToCart(item): the qty of the line with the item's key
\* raised and nothing else changed, or one line for the item put at the end
AddedTo(old, item, new) ==
    LET hit == {i \in 1..Len(old) : KeyOf(old[i]) = KeyOf(item)}
    IN IF hit # {}
       THEN /\ Len(new) = Len(old)
            /\ \E i \in hit :
                  /\ new[i] = [old[i] EXCEPT !.qty = old[i].qty + item.qty]
                  /\ \A j \in 1..Len(old) : j # i => new[j] = old[j]
       ELSE /\ Len(new) = Len(old) + 1
            /\ SubSeq(new, 1, Len(old)) = old
            /\ KeyOf(new[Len(new)]) = KeyOf(item)
            /\ new[Len(new)].price = item.price
            /\ new[Len(new)].name = item.name
            /\ new[Len(new)].qty = IF item.qty = 0 THEN 1 ELSE item.qty

\* new is old with the qty of the targeted lines set to max(1, qty)
QtySetOn(old, id, qty, options, new) ==
    /\ Len(new) = Len(old)
    /\ \A i \in 1..Len(old) :
          new[i] = IF i \in Targets(old, id, options)
                   THEN [old[i] EXCEPT !.qty = IF qty > 1 THEN qty ELSE 1]
                   ELSE old[i]

\* new is old without the targeted lines, the others in their order
RemovedFrom(old, id, options, new) ==
    LET kept(i) == Cardinality({j \in 1..i : j \notin Targets(old, id, options)})
    IN /\ Len(new) = Len(old) - Cardinality(Targets(old, id, options))
       /\ \A i \in 1..Len(old) :
             i \notin Targets(old, id, options) => new[kept(i)] = old[i]

\* C28: each cart call changes only the lines it targets: addToCart raises
\* the qty of the line with the item's key, leaving its price and name as
\* first added, or appends one line; setQty sets max(1, qty) on exactly the
\* lines matching the id and the options; removeFromCart deletes exactly
\* those; every other line keeps its content and place in the order.
C28_OnlyTargetedLines ==
    [][(tabs[1].pc = "write" /\ tabs'[1].pc = "done") =>
          LET c == tabs[1].call
              old == getCartItems(localStorage)
              new == getCartItems(localStorage')
          IN /\ c.op = "addToCart" => AddedTo(old, c.item, new)
             /\ c.op = "setQty" => QtySetOn(old, c.id, c.qty, c.options, new)
             /\ c.op = "removeFromCart" => RemovedFrom(old, c.id, c.options, new)]_vars

\* a cart left with two lines by a removeFromCart, its first line holding
\* more units than any one addToCart puts on a new line, at its first price
C28_Witness ==
    /\ tabs[1].pc = "done"
    /\ tabs[1].op = "removeFromCart"
    /\ Len(getCartItems(localStorage)) = 2
    /\ getCartItems(localStorage)[1].qty = 2
    /\ getCartItems(localStorage)[1].price = 100

----------------------------------------------------------------------------
(* Properties of the adding and quoting flags *)

\* C29: while an add started by the detail button is under way (adding set),
\* the button makes no further addToCart call, and adding is reset
\* afterwards; while a quote request is under way (quoting set) it stays the
\* only one, and quoting is reset with the modal open.  A window that has
\* been closed runs no timer.
C29_FlagsInFlight ==
    /\ [][page.adding => page'.detailAdds = page.detailAdds]_vars
    /\ [][(quote.quoting /\ ~quote'.quoting) => quote'.isOpen]_vars
    /\ page.adding ~> (~page.adding \/ quote.windowClosed)
    /\ quote.quoting ~> ((~quote.quoting /\ quote.isOpen) \/ quote.windowClosed)

\* a second add under way after the first was reset, while a quote request
\* is under way too, other units having reached the quantity field meanwhile
C29_Witness ==
    /\ page.adding
    /\ page.detailAdds = 2
    /\ quote.quoting
    /\ fields.detail = Num(2)
    /\ ~quote.windowClosed

============================================================================
